---------------------------- MODULE Spec2Model ----------------------------
(***************************************************************************)
(* The retrieval-and-generation pipeline of the textbook RAG backend       *)
(* (backend/app/services): response generation and context building,       *)
(* content chunking and chunk ids, the embedding client and the indexer.   *)
(*                                                                         *)
(* Each component is a group of variables with its own initial condition   *)
(* and next-state relation; a component's specification holds the other    *)
(* components' variables at their idle values.                             *)
(*                                                                         *)
(* Conventions: a similarity score is an integer number of hundredths      *)
(* (0.7 is 70); a text the code only measures is carried as its length in  *)
(* characters; identifiers the code formats into strings are strings.      *)
(***************************************************************************)
EXTENDS Integers, Sequences, FiniteSets, TLC

VARIABLES
    \* ---- response generator / context builder
    retrieved,       \* RetrievalResult.chunks handed to the operation
    selected_text,   \* the optional user-selected text
    max_tokens,      \* ContextBuilder.max_tokens
    max_chunks,      \* ContextBuilder.max_chunks
    called,          \* which operation has run
    built,           \* the BuiltContext of the last build_context
    sources,         \* the list returned by _extract_sources
    response,        \* the outcome of generate_response
    priority_chapter_id, \* the argument of build_context_with_priority
    \* ---- content parser / chunker
    docs,            \* the files of the docs directory, in glob order
    chunk_size,      \* ContentChunker.chunk_size
    chunk_overlap,   \* ContentChunker.chunk_overlap
    min_chunk_size,  \* ContentChunker.min_chunk_size
    runs,            \* the chunk_content calls made so far, with their results
    all_chunks,      \* the list returned by parse_textbook_directory
    \* ---- embedding service (one generate_embeddings call)
    texts,           \* the texts to embed
    emb_pc,          \* "idle", "call" (about to call the provider), "returned", "raised"
    batches,         \* the batches built by _create_batches
    batch_idx,       \* the batch being processed (from 1)
    attempt,         \* the attempt of _process_batch_with_retry (from 0)
    retry_delay,     \* its current backoff delay, in seconds
    provider_calls,  \* the provider calls' outcomes in the latest retry loop
    sleeps,          \* the sleeps made for this batch: the error caught,
                     \* the retry_after read from it, the seconds slept
    all_results,     \* the results gathered so far
    emb_error,       \* the exception that left generate_embeddings
    \* ---- indexer
    store,           \* the points of the vector collection
    initial_store,   \* the points it held before the calls
    store_log,       \* the requests issued to the vector store, in order
    calls,           \* the indexer calls: arguments, position and locals
    \* ---- retriever
    hits,            \* the stored points ranked by similarity to the query
    default_top_k,   \* VectorRetriever.default_top_k
    default_score_threshold, \* VectorRetriever.default_score_threshold
    ret_called,      \* which retriever operation has run
    ret_args,        \* its arguments
    search_log,      \* the searches issued to the vector store, in order
    ret_result,      \* the outcome of the operation
    \* ---- content parser
    raw_lines,       \* the lines of a document body after its frontmatter
    parsed,          \* the ParsedContent of parse_content
    \* ---- query processor
    raw_query,       \* the query being asked, as its words
    enable_expansion,\* whether the processor expands queries
    hash_order,      \* the set iteration order of the running interpreter
    processed_queries \* what each process_query call returned or raised

genVars == <<retrieved, selected_text, max_tokens, max_chunks, called, built,
             sources, response, priority_chapter_id>>

chunkVars == <<docs, chunk_size, chunk_overlap, min_chunk_size, runs,
               all_chunks>>

embVars == <<texts, emb_pc, batches, batch_idx, attempt, retry_delay,
             provider_calls, sleeps, all_results, emb_error>>

idxVars == <<store, initial_store, store_log, calls>>

retVars == <<hits, default_top_k, default_score_threshold, ret_called,
             ret_args, search_log, ret_result>>

parVars == <<raw_lines, parsed>>

qpVars == <<raw_query, enable_expansion, hash_order, processed_queries>>

vars == <<genVars, chunkVars, embVars, idxVars, retVars, parVars, qpVars>>

\* What each component's actions leave alone: the other components.
notGenVars == <<chunkVars, embVars, idxVars, retVars, parVars, qpVars>>
notChunkVars == <<genVars, embVars, idxVars, retVars, parVars, qpVars>>
notEmbVars == <<genVars, chunkVars, idxVars, retVars, parVars, qpVars>>
notIdxVars == <<genVars, chunkVars, embVars, retVars, parVars, qpVars>>
notRetVars == <<genVars, chunkVars, embVars, idxVars, parVars, qpVars>>
notParVars == <<genVars, chunkVars, embVars, idxVars, retVars, qpVars>>
notQpVars == <<genVars, chunkVars, embVars, idxVars, retVars, parVars>>

-----------------------------------------------------------------------------
(* Helpers shared by the components. *)

\* Python's min(a, b).
Min(a, b) == IF a <= b THEN a ELSE b

\* The set of finite sequences over S of length at most n.
SeqUpTo(S, n) == UNION {[1..k -> S] : k \in 0..n}

\* The indexes of a sequence.
Indexes(s) == 1..Len(s)

\* Optional values: None, or a text of a given length.
None == [none |-> TRUE]
Text(n) == [none |-> FALSE, len |-> n]

\* Python truthiness of an optional string: None and "" are falsy.
Truthy(t) == IF t.none THEN FALSE ELSE t.len > 0

-----------------------------------------------------------------------------
(* Context builder and response generator. *)

\* Longest chunk list handed to the generator.
MaxRetrieved == 3

\* Minimum relevance, in hundredths (0.7).
MIN_RELEVANCE_THRESHOLD == 70

\* Characters per estimated token.
CHARS_PER_TOKEN_ESTIMATE == 4

\* ContextBuilder defaults.
DEFAULT_MAX_TOKENS == 4000
DEFAULT_MAX_CHUNKS == 10

\* A RetrievedChunk; content is carried as its length in characters.
RetrievedChunk(id, chapter_id, title, section_title, content_len, score) ==
    [id |-> id, chapter_id |-> chapter_id, title |-> title,
     section_title |-> section_title, page_url |-> "/" \o chapter_id,
     content_len |-> content_len, score |-> score]

\* The chunks a retrieval may return.
RetrievedPool ==
    { RetrievedChunk("r1", "ros",       "ROS",   "intro:Setup", 40,  90),
      RetrievedChunk("r2", "ros:intro", "Intro", "Setup",       60,  80),
      RetrievedChunk("r3", "ros",       "ROS",   "intro:Setup", 400, 70),
      RetrievedChunk("r4", "nav",       "Nav",   "Setup",       120, 69),
      RetrievedChunk("r5", "nav",       "Nav",   "Planning",    40,  50) }

\* The selected texts a caller may pass: none, empty, short, long.
SelectedTexts == {None, Text(0), Text(30), Text(400)}

\* The (max_tokens, max_chunks) limits a ContextBuilder may be built with.
BuilderLimits == { <<DEFAULT_MAX_TOKENS, DEFAULT_MAX_CHUNKS>>,
                   <<100, 2>>, <<40, 1>>, <<5, DEFAULT_MAX_CHUNKS>> }

\* ContextBuilder._estimate_tokens, of a text of n characters.
_estimate_tokens(n) == n \div CHARS_PER_TOKEN_ESTIMATE

\* ContextBuilder._format_chunk: the length of the formatted chunk.
_format_chunk(chunk, index) ==
    Len("[Source " \o ToString(index) \o ": " \o chunk.title \o " - "
        \o chunk.section_title \o "]\n")
    + chunk.content_len + Len("\n")

\* The selected-text block f"[User Selected Text]\n{selected_text}\n\n".
SelectedContextLen(text) == Len("[User Selected Text]\n") + text.len + Len("\n\n")

\* The fixed header of the retrieved content.
HeaderLen == Len("Relevant content from the textbook:\n\n")

\* "\n".join(parts) of parts whose lengths are given.
RECURSIVE SumLen(_)
SumLen(lens) == IF lens = <<>> THEN 0 ELSE Head(lens) + SumLen(Tail(lens))
JoinLen(lens, sep) ==
    IF lens = <<>> THEN 0 ELSE SumLen(lens) + sep * (Len(lens) - 1)

\* A chunk loop that passes over a chunk exceeding the token limit and
\* goes on with the chunks after it.
RECURSIVE BuildLoopSkipping(_, _, _, _, _)
BuildLoopSkipping(chunks, i, context_parts, chunks_used, current_tokens) ==
    LET result(truncated) ==
            [context_text_len |-> JoinLen(context_parts, 1),
             chunks_used |-> chunks_used,
             total_tokens_estimate |-> current_tokens,
             truncated |-> truncated]
    IN  IF i > Len(chunks) THEN result(Len(chunks_used) < Len(chunks))
        ELSE IF Len(chunks_used) >= max_chunks THEN result(TRUE)
        ELSE LET formatted == _format_chunk(chunks[i], Len(chunks_used) + 1)
                 chunk_tokens == _estimate_tokens(formatted)
             IN  IF current_tokens + chunk_tokens > max_tokens
                 THEN BuildLoopSkipping(chunks, i + 1, context_parts,
                                        chunks_used, current_tokens)
                 ELSE BuildLoopSkipping(chunks, i + 1,
                                        Append(context_parts, formatted),
                                        Append(chunks_used, chunks[i]),
                                        current_tokens + chunk_tokens)

\* The chunk loop of build_context, from chunk i on.
RECURSIVE BuildLoop(_, _, _, _, _)
BuildLoop(chunks, i, context_parts, chunks_used, current_tokens) ==
    LET result(truncated) ==
            [context_text_len |-> JoinLen(context_parts, 1),
             chunks_used |-> chunks_used,
             total_tokens_estimate |-> current_tokens,
             truncated |-> truncated]
    IN  IF i > Len(chunks) THEN result(FALSE)
        ELSE IF Len(chunks_used) >= max_chunks THEN result(TRUE)
        ELSE LET formatted == _format_chunk(chunks[i], Len(chunks_used) + 1)
                 chunk_tokens == _estimate_tokens(formatted)
             IN  IF current_tokens + chunk_tokens > max_tokens
                 THEN result(TRUE)
                 ELSE BuildLoop(chunks, i + 1,
                                Append(context_parts, formatted),
                                Append(chunks_used, chunks[i]),
                                current_tokens + chunk_tokens)

\* ContextBuilder.build_context.
build_context(chunks, text) ==
    IF chunks = <<>>
    THEN [context_text_len |-> 0, chunks_used |-> <<>>,
          total_tokens_estimate |-> 0, truncated |-> FALSE]
    ELSE LET selected_parts ==
                 IF Truthy(text) THEN <<SelectedContextLen(text)>> ELSE <<>>
             selected_tokens ==
                 IF Truthy(text)
                 THEN _estimate_tokens(SelectedContextLen(text)) ELSE 0
         IN  BuildLoop(chunks, 1, Append(selected_parts, HeaderLen), <<>>,
                       selected_tokens + _estimate_tokens(HeaderLen))

\* A priority_chapter_id argument that is a string.
ChapterId(id) == [none |-> FALSE, id |-> id]

\* The priority_chapter_id arguments a caller may pass.
PriorityChapterIds ==
    {None, ChapterId(""), ChapterId("ros"), ChapterId("nav"),
     ChapterId("ros:intro"), ChapterId("perception")}

\* A prioritised build that leaves the chunks in their input order.
build_context_unprioritised(chunks, priority, text) ==
    build_context(chunks, text)

\* ContextBuilder.build_context_with_priority.
build_context_with_priority(chunks, priority, text) ==
    IF priority.none \/ priority.id = ""
    THEN build_context(chunks, text)
    ELSE LET priority_chunks ==
                 SelectSeq(chunks, LAMBDA c : c.chapter_id = priority.id)
             other_chunks ==
                 SelectSeq(chunks, LAMBDA c : c.chapter_id # priority.id)
         IN  build_context(priority_chunks \o other_chunks, text)

\* The Source built from a chunk.
Source(chunk) ==
    [chapter_id |-> chunk.chapter_id, title |-> chunk.title,
     section_title |-> chunk.section_title, page_url |-> chunk.page_url,
     relevance_score |-> chunk.score]

\* The deduplication key f"{chunk.chapter_id}:{chunk.section_title}".
SourceKey(chunk) == chunk.chapter_id \o ":" \o chunk.section_title

\* A source extraction that cites only the chunks at or above the
\* relevance threshold.
RECURSIVE ExtractLoopRelevantOnly(_, _, _, _)
ExtractLoopRelevantOnly(chunks, i, seen_chapters, acc) ==
    IF i > Len(chunks) THEN acc
    ELSE LET key == chunks[i].chapter_id \o ":" \o chunks[i].section_title
         IN  IF key \notin seen_chapters
                /\ chunks[i].score >= MIN_RELEVANCE_THRESHOLD
             THEN ExtractLoopRelevantOnly(
                      chunks, i + 1, seen_chapters \cup {key},
                      Append(acc, [chapter_id |-> chunks[i].chapter_id,
                                   title |-> chunks[i].title,
                                   section_title |-> chunks[i].section_title,
                                   page_url |-> chunks[i].page_url,
                                   relevance_score |-> chunks[i].score]))
             ELSE ExtractLoopRelevantOnly(chunks, i + 1, seen_chapters, acc)

\* ResponseGenerator._extract_sources.
RECURSIVE ExtractLoop(_, _, _, _)
ExtractLoop(chunks, i, seen_chapters, acc) ==
    IF i > Len(chunks) THEN acc
    ELSE LET key == SourceKey(chunks[i])
         IN  IF key \notin seen_chapters
             THEN ExtractLoop(chunks, i + 1, seen_chapters \cup {key},
                              Append(acc, Source(chunks[i])))
             ELSE ExtractLoop(chunks, i + 1, seen_chapters, acc)
_extract_sources(chunks) == ExtractLoop(chunks, 1, {}, <<>>)

\* A relevance check that excludes the threshold itself.
_has_relevant_results_strict(chunks) ==
    \E i \in Indexes(chunks) : chunks[i].score > MIN_RELEVANCE_THRESHOLD

\* ResponseGenerator._has_relevant_results.
_has_relevant_results(chunks) ==
    IF chunks = <<>> THEN FALSE
    ELSE \E i \in Indexes(chunks) : chunks[i].score >= MIN_RELEVANCE_THRESHOLD

\* ResponseGenerator._generate_fallback_response, the chat call having
\* returned.
_generate_fallback_response(text) ==
    [raised |-> FALSE, sources |-> <<>>, is_fallback |-> TRUE,
     selected_text |-> text]

\* The outcome of a call that propagated the chat provider's exception.
Raised == [raised |-> TRUE]

\* The state before any operation has run.
GenInit ==
    /\ retrieved \in SeqUpTo(RetrievedPool, MaxRetrieved)
    /\ selected_text \in SelectedTexts
    /\ \E lim \in BuilderLimits : max_tokens = lim[1] /\ max_chunks = lim[2]
    /\ called = "none"
    /\ built = None
    /\ sources = <<>>
    /\ response = None
    /\ priority_chapter_id = None

\* A direct call of ContextBuilder.build_context.
BuildContext ==
    /\ called = "none"
    /\ called' = "build_context"
    /\ built' = build_context(retrieved, selected_text)
    /\ UNCHANGED <<retrieved, selected_text, max_tokens, max_chunks, sources,
                   response, priority_chapter_id>>
    /\ UNCHANGED notGenVars

\* A direct call of ContextBuilder.build_context_with_priority.
BuildContextWithPriority ==
    /\ called = "none"
    /\ called' = "build_context_with_priority"
    /\ \E priority \in PriorityChapterIds :
         /\ priority_chapter_id' = priority
         /\ built' = build_context_with_priority(retrieved, priority,
                                                 selected_text)
    /\ UNCHANGED <<retrieved, selected_text, max_tokens, max_chunks, sources,
                   response>>
    /\ UNCHANGED notGenVars

\* A direct call of ResponseGenerator._extract_sources.
ExtractSources ==
    /\ called = "none"
    /\ called' = "_extract_sources"
    /\ sources' = _extract_sources(retrieved)
    /\ UNCHANGED <<retrieved, selected_text, max_tokens, max_chunks, built,
                   response, priority_chapter_id>>
    /\ UNCHANGED notGenVars

\* ResponseGenerator.generate_response; chat_ok is whether the chat
\* provider's call returns (it raises otherwise, and the error propagates).
GenerateResponse ==
    /\ called = "none"
    /\ called' = "generate_response"
    /\ \E chat_ok \in BOOLEAN :
         IF ~_has_relevant_results(retrieved)
         THEN /\ response' = IF chat_ok
                             THEN _generate_fallback_response(selected_text)
                             ELSE Raised
              /\ UNCHANGED built
         ELSE LET built_context == build_context(retrieved, selected_text)
              IN  /\ built' = built_context
                  /\ response' =
                       IF chat_ok
                       THEN [raised |-> FALSE,
                             sources |->
                                 _extract_sources(built_context.chunks_used),
                             is_fallback |-> FALSE,
                             selected_text |-> selected_text]
                       ELSE Raised
    /\ UNCHANGED <<retrieved, selected_text, max_tokens, max_chunks, sources,
                   priority_chapter_id>>
    /\ UNCHANGED notGenVars

GenNext ==
    BuildContext \/ BuildContextWithPriority \/ ExtractSources \/ GenerateResponse

\* Every chunk of the list scores below the threshold (true of the empty list).
AllBelowThreshold(chunks) ==
    \A i \in Indexes(chunks) : chunks[i].score < MIN_RELEVANCE_THRESHOLD

\* generate_response has returned a GeneratedResponse.
Generated == called = "generate_response" /\ ~response.raised

C2_TotalTokensWithinMaxTokens ==
    called = "build_context" => built.total_tokens_estimate <= max_tokens

\* The chunks of a list that are the first of their (chapter_id,
\* section_title) pair, in order.
FirstOfPair(chunks) ==
    LET first(i) == \A j \in 1..(i - 1) :
                        \/ chunks[j].chapter_id # chunks[i].chapter_id
                        \/ chunks[j].section_title # chunks[i].section_title
        RECURSIVE from(_)
        from(i) == IF i > Len(chunks) THEN <<>>
                   ELSE IF first(i) THEN <<chunks[i]>> \o from(i + 1)
                   ELSE from(i + 1)
    IN  from(1)

\* C10: _extract_sources returns exactly one Source per distinct
\* (chapter_id, section_title) pair of the list, in order of first
\* occurrence, each with the score of the first chunk of its pair.
C10_OneSourcePerDistinctPair ==
    called = "_extract_sources" =>
        LET firsts == FirstOfPair(retrieved)
        IN  /\ Len(sources) = Len(firsts)
            /\ \A k \in Indexes(firsts) :
                   /\ sources[k].chapter_id = firsts[k].chapter_id
                   /\ sources[k].section_title = firsts[k].section_title
                   /\ sources[k].relevance_score = firsts[k].score

\* C11: whenever the list handed to generate_response holds a chunk scoring
\* 0.7 or more, the response is not a fallback and its sources list is
\* non-empty, whatever the chunks' contents and the builder's limits.
C11_RelevantChunkGivesSources ==
    (Generated /\ ~AllBelowThreshold(retrieved)) =>
        ~response.is_fallback /\ response.sources # <<>>

\* s is a prefix of t.
IsPrefix(s, t) == Len(s) <= Len(t) /\ s = SubSeq(t, 1, Len(s))

\* C12: build_context returns truncated = true exactly when fewer than all
\* chunks were included; chunks_used is a prefix of the input, and when a
\* chunk was left out the first one left out would have passed the
\* chunk-count cap or the token cap.
C12_TruncatedIffChunksLeftOut ==
    called = "build_context" =>
        /\ built.truncated <=> Len(built.chunks_used) < Len(retrieved)
        /\ IsPrefix(built.chunks_used, retrieved)
        /\ Len(built.chunks_used) < Len(retrieved) =>
              \/ Len(built.chunks_used) >= max_chunks
              \/ built.total_tokens_estimate
                   + _estimate_tokens(
                        _format_chunk(retrieved[Len(built.chunks_used) + 1],
                                      Len(built.chunks_used) + 1))
                   > max_tokens

\* A chunk that fits was included, the next exceeded the token cap with
\* the chunk-count cap not reached, and a chunk after it would have fitted.
C12_Witness ==
    /\ called = "build_context"
    /\ built.truncated
    /\ Len(built.chunks_used) = 1
    /\ Len(retrieved) = 3
    /\ max_chunks > 1
    /\ built.total_tokens_estimate
         + _estimate_tokens(_format_chunk(retrieved[3], 2)) <= max_tokens

\* The chunks of a list that are of the priority chapter, or the others.
OfChapter(chunks, priority, member) ==
    SelectSeq(chunks, LAMBDA c : (c.chapter_id = priority.id) = member)

\* C13: build_context_with_priority with a priority_chapter_id never puts a
\* chunk of another chapter before a chunk of the priority chapter,
\* includes a chunk of another chapter only if every chunk of the priority
\* chapter is included, and keeps the input order within each group.
C13_PriorityChapterFirst ==
    (/\ called = "build_context_with_priority"
     /\ ~priority_chapter_id.none
     /\ priority_chapter_id.id # "") =>
        LET used == built.chunks_used
            prio == priority_chapter_id
        IN  /\ \A i, j \in Indexes(used) :
                  (i < j /\ used[j].chapter_id = prio.id) =>
                      used[i].chapter_id = prio.id
            /\ OfChapter(used, prio, FALSE) # <<>> =>
                  Len(OfChapter(used, prio, TRUE))
                      = Len(OfChapter(retrieved, prio, TRUE))
            /\ IsPrefix(OfChapter(used, prio, TRUE),
                        OfChapter(retrieved, prio, TRUE))
            /\ IsPrefix(OfChapter(used, prio, FALSE),
                        OfChapter(retrieved, prio, FALSE))

\* A chunk of another chapter came first in the input and the two chunks of
\* the priority chapter were moved before it.
C13_Witness ==
    /\ called = "build_context_with_priority"
    /\ ~priority_chapter_id.none
    /\ priority_chapter_id.id = "nav"
    /\ Len(retrieved) = 3
    /\ retrieved[1].chapter_id # "nav"
    /\ retrieved[2].id = "r4"
    /\ retrieved[3].id = "r5"
    /\ Len(built.chunks_used) = 3
    /\ built.chunks_used[1].id = "r4"
    /\ built.chunks_used[2].id = "r5"


\* generate_response has returned a response that is not a fallback.
Grounded == Generated /\ ~response.is_fallback

\* C28 as stated: every Source of a response that is not a fallback has a
\* relevance_score of 0.7 or more.
C28_SourcesAtOrAboveThreshold ==
    Grounded =>
        \A k \in Indexes(response.sources) :
            response.sources[k].relevance_score >= MIN_RELEVANCE_THRESHOLD

\* C28, amended: a response that is not a fallback was made from a list
\* holding a chunk of 0.7 or more; its Sources are those of the chunks the
\* context builder included, each with its chunk's score, and every
\* included chunk that is the first of its chapter:section key is cited,
\* whatever its score.
C28_SourcesAreOfIncludedChunks ==
    Grounded =>
        /\ ~AllBelowThreshold(retrieved)
        /\ \A k \in Indexes(response.sources) :
              \E i \in Indexes(built.chunks_used) :
                  response.sources[k] = Source(built.chunks_used[i])
        /\ \A i \in Indexes(built.chunks_used) :
              (\A j \in 1..(i - 1) : SourceKey(built.chunks_used[j])
                                        # SourceKey(built.chunks_used[i]))
                  => \E k \in Indexes(response.sources) :
                         response.sources[k] = Source(built.chunks_used[i])

\* C28's case: a chunk of 0.9 and a chunk of 0.69 of another section were
\* retrieved, both went into the context, and the response cites both.
C28_Witness ==
    /\ Grounded
    /\ Len(retrieved) = 2
    /\ retrieved[1].score = 90
    /\ retrieved[2].score = 69
    /\ Len(built.chunks_used) = 2
    /\ Len(response.sources) = 2
    /\ response.sources[2].relevance_score = 69

-----------------------------------------------------------------------------
(* Content parser and chunker. *)

\* Most files in the docs directory, and most chunk_content calls.
MaxFiles == 2
MaxRuns == 2

\* A source file: its directory below docs/, stem and extension, whether it
\* can be read as UTF-8, its frontmatter title if any, and its body as the
\* (heading, body) sections of _extract_sections.  A body is a list of
\* paragraphs, a paragraph a list of sentences, a sentence its length in
\* characters; the empty paragraph is one of white space only.
File(dir, stem, ext, readable, fm_title, sections) ==
    [dir |-> dir, stem |-> stem, ext |-> ext, readable |-> readable,
     fm_title |-> fm_title, sections |-> sections]

Section(heading, paragraphs) == [heading |-> heading, paragraphs |-> paragraphs]

\* The files a docs directory may hold.
FilePool ==
    { File("intro", "overview", "md", TRUE, "None",
           << Section("Introduction", << <<12, 8>>, <<>>, <<8>>, <<16>> >>),
              Section("Setup", << <<12, 12, 8, 4>>, <<2>> >>) >>),
      File("ros", "overview", "md", TRUE, "ROS Overview",
           << Section("Introduction", << <<20>> >>),
              Section("Empty", << <<>> >>),
              Section("Nodes", << <<8>>, <<8>>, <<12>> >>) >>),
      File("intro", "overview", "mdx", TRUE, "None",
           << Section("Introduction", << <<4>>, <<16, 16>> >>) >>),
      File("_templates", "chapter", "md", TRUE, "None",
           << Section("Introduction", << <<16>> >>) >>),
      File("ros", "nodes", "mdx", FALSE, "None", <<>>) }

\* The (chunk_size, chunk_overlap, min_chunk_size) a chunker may be built
\* with, in estimated tokens.
ChunkerConfigs == { <<5, 2, 1>>, <<4, 3, 2>>, <<6, 0, 0>> }

\* The path of a file below the docs directory.
PathOf(file) == "docs/" \o file.dir \o "/" \o file.stem \o "." \o file.ext

\* chapter_id.replace("-", " ").title(), of the stems of the pool.
TitleOfStem(stem) ==
    CASE stem = "overview" -> "Overview"
      [] stem = "chapter"  -> "Chapter"
      [] stem = "nodes"    -> "Nodes"

\* ContentParser._generate_page_url, with an empty base_url.
_generate_page_url(file) == "/" \o file.dir \o "/" \o file.stem

\* ContentParser._extract_metadata.
_extract_metadata(file) ==
    LET chapter_id == file.stem
        title == IF file.fm_title # "None" THEN file.fm_title
                 ELSE TitleOfStem(chapter_id)
    IN  [chapter_id |-> chapter_id, title |-> title, section_title |-> title,
         page_url |-> _generate_page_url(file)]

\* ContentParser.parse_content.
parse_content(file) ==
    [metadata |-> _extract_metadata(file), sections |-> file.sections]

\* ContentChunker.estimate_tokens, of a text of n characters.
estimate_tokens(n) == n \div 4

\* The length of a paragraph: its sentences, a space between two.
ParaLen(para) == JoinLen(para, 1)

\* The lengths of the paragraphs of a list.
ParaLens(paras) == [k \in Indexes(paras) |-> ParaLen(paras[k])]

\* "\n\n".join(current_chunk): a chunk text made of whole paragraphs.
JoinParagraphs(current_chunk) ==
    [kind |-> "paragraphs", parts |-> current_chunk,
     len |-> JoinLen(ParaLens(current_chunk), 2)]

\* " ".join(current_chunk): a chunk text made of sentences of one paragraph.
JoinSentences(current_chunk) ==
    [kind |-> "sentences", parts |-> <<current_chunk>>,
     len |-> JoinLen(current_chunk, 1)]

\* A sentence loop that starts the next chunk empty, without the sentence
\* that did not fit.
RECURSIVE SentenceLoopLosing(_, _, _, _, _)
SentenceLoopLosing(sentences, i, current_chunk, current_size, out) ==
    IF i > Len(sentences)
    THEN IF current_chunk # <<>>
         THEN Append(out, JoinSentences(current_chunk)) ELSE out
    ELSE IF sentences[i] = 0
    THEN SentenceLoopLosing(sentences, i + 1, current_chunk, current_size, out)
    ELSE LET sentence_tokens == estimate_tokens(sentences[i])
         IN  IF current_size + sentence_tokens > chunk_size
                /\ current_chunk # <<>>
             THEN SentenceLoopLosing(sentences, i + 1, <<>>, 0,
                                     Append(out, JoinSentences(current_chunk)))
             ELSE SentenceLoopLosing(sentences, i + 1,
                                     Append(current_chunk, sentences[i]),
                                     current_size + sentence_tokens, out)

\* ContentChunker._split_large_paragraph, from sentence i on.
RECURSIVE SentenceLoop(_, _, _, _, _)
SentenceLoop(sentences, i, current_chunk, current_size, out) ==
    IF i > Len(sentences)
    THEN IF current_chunk # <<>>
         THEN Append(out, JoinSentences(current_chunk)) ELSE out
    ELSE IF sentences[i] = 0
    THEN SentenceLoop(sentences, i + 1, current_chunk, current_size, out)
    ELSE LET sentence_tokens == estimate_tokens(sentences[i])
         IN  IF current_size + sentence_tokens > chunk_size
                /\ current_chunk # <<>>
             THEN SentenceLoop(sentences, i + 1, <<sentences[i]>>,
                               sentence_tokens,
                               Append(out, JoinSentences(current_chunk)))
             ELSE SentenceLoop(sentences, i + 1,
                               Append(current_chunk, sentences[i]),
                               current_size + sentence_tokens, out)
_split_large_paragraph(paragraph) == SentenceLoop(paragraph, 1, <<>>, 0, <<>>)

\* The overlap window of _split_text: the last paragraphs of current_chunk,
\* taken from the end while they fit in chunk_overlap.
RECURSIVE OverlapLoop(_, _, _, _)
OverlapLoop(current_chunk, k, overlap_chunks, overlap_size) ==
    IF k < 1 THEN [chunks |-> overlap_chunks, size |-> overlap_size]
    ELSE LET prev_size == estimate_tokens(ParaLen(current_chunk[k]))
         IN  IF overlap_size + prev_size <= chunk_overlap
             THEN OverlapLoop(current_chunk, k - 1,
                              <<current_chunk[k]>> \o overlap_chunks,
                              overlap_size + prev_size)
             ELSE [chunks |-> overlap_chunks, size |-> overlap_size]

\* The paragraph loop of _split_text, from paragraph i on.
RECURSIVE ParagraphLoop(_, _, _, _, _)
ParagraphLoop(paragraphs, i, current_chunk, current_size, out) ==
    IF i > Len(paragraphs)
    THEN IF current_chunk # <<>>
         THEN Append(out, JoinParagraphs(current_chunk)) ELSE out
    ELSE LET para == paragraphs[i]
             para_tokens == estimate_tokens(ParaLen(para))
         IN  IF ParaLen(para) = 0
             THEN ParagraphLoop(paragraphs, i + 1, current_chunk,
                                current_size, out)
             ELSE IF para_tokens > chunk_size
             THEN LET flushed == IF current_chunk # <<>>
                                 THEN Append(out, JoinParagraphs(current_chunk))
                                 ELSE out
                  IN  ParagraphLoop(paragraphs, i + 1, <<>>, 0,
                                    flushed \o _split_large_paragraph(para))
             ELSE IF current_size + para_tokens > chunk_size
                     /\ current_chunk # <<>>
             THEN LET overlap == OverlapLoop(current_chunk, Len(current_chunk),
                                             <<>>, 0)
                  IN  ParagraphLoop(paragraphs, i + 1,
                                    Append(overlap.chunks, para),
                                    overlap.size + para_tokens,
                                    Append(out, JoinParagraphs(current_chunk)))
             ELSE ParagraphLoop(paragraphs, i + 1, Append(current_chunk, para),
                                current_size + para_tokens, out)

\* ContentChunker._split_text: the chunk texts it yields, in order.
_split_text(paragraphs) ==
    IF \A k \in Indexes(paragraphs) : ParaLen(paragraphs[k]) = 0 THEN <<>>
    ELSE ParagraphLoop(paragraphs, 1, <<>>, 0, <<>>)

\* uuid.uuid5 in the URL namespace: a value determined by the name, and
\* different for different names.
uuid5(name) == [namespace |-> "6ba7b810-9dad-11d1-80b4-00c04fd430c8",
                name |-> name]

\* A chunk id drawn afresh at every call, as uuid.uuid4 would.
_generate_chunk_id_per_call(chapter_id, section_title, position) ==
    uuid5(chapter_id \o ":" \o section_title \o ":" \o ToString(position)
          \o "#" \o ToString(Len(runs)))

\* ContentChunker._generate_chunk_id.
_generate_chunk_id(chapter_id, section_title, position) ==
    uuid5(chapter_id \o ":" \o section_title \o ":" \o ToString(position))

\* A loop over the chunk texts of one section that keeps every text.
RECURSIVE TextLoopKeepingAll(_, _, _, _, _)
TextLoopKeepingAll(parsed_content, section, chunk_texts, k, acc) ==
    IF k > Len(chunk_texts) THEN acc
    ELSE TextLoopKeepingAll(parsed_content, section, chunk_texts, k + 1,
           Append(acc,
             [id |-> _generate_chunk_id(parsed_content.metadata.chapter_id,
                                        section.heading, Len(acc)),
              content |-> chunk_texts[k],
              metadata |-> [parsed_content.metadata
                               EXCEPT !.section_title = section.heading],
              position |-> Len(acc),
              token_count |-> estimate_tokens(chunk_texts[k].len)]))

\* The loop of chunk_content over the chunk texts of one section.
RECURSIVE TextLoop(_, _, _, _, _)
TextLoop(parsed_content, section, chunk_texts, k, acc) ==
    IF k > Len(chunk_texts) THEN acc
    ELSE LET token_count == estimate_tokens(chunk_texts[k].len)
             position == Len(acc)
         IN  IF token_count < min_chunk_size
             THEN TextLoop(parsed_content, section, chunk_texts, k + 1, acc)
             ELSE TextLoop(parsed_content, section, chunk_texts, k + 1,
                    Append(acc,
                      [id |-> _generate_chunk_id(
                                  parsed_content.metadata.chapter_id,
                                  section.heading, position),
                       content |-> chunk_texts[k],
                       metadata |->
                           [parsed_content.metadata
                               EXCEPT !.section_title = section.heading],
                       position |-> position,
                       token_count |-> token_count]))

\* The loop of chunk_content over the sections; the position of the next
\* chunk is the number of chunks made so far.
RECURSIVE SectionLoop(_, _, _)
SectionLoop(parsed_content, s, chunks) ==
    IF s > Len(parsed_content.sections) THEN chunks
    ELSE SectionLoop(parsed_content, s + 1,
                     TextLoop(parsed_content, parsed_content.sections[s],
                              _split_text(parsed_content.sections[s].paragraphs),
                              1, chunks))

\* ContentChunker.chunk_content.
chunk_content(parsed_content) == SectionLoop(parsed_content, 1, <<>>)

\* One glob pattern's pass of parse_textbook_directory over the directory.
RECURSIVE GlobLoop(_, _, _, _)
GlobLoop(files, ext, k, acc) ==
    IF k > Len(files) THEN acc
    ELSE IF files[k].ext # ext \/ files[k].dir = "_templates"
              \/ ~files[k].readable
    THEN GlobLoop(files, ext, k + 1, acc)
    ELSE GlobLoop(files, ext, k + 1,
                  acc \o chunk_content(parse_content(files[k])))

\* parse_textbook_directory: the "**/*.md" pass, then the "**/*.mdx" pass.
parse_textbook_directory(files) ==
    GlobLoop(files, "mdx", 1, GlobLoop(files, "md", 1, <<>>))

\* A docs directory of distinct files and a chunker, before any call.
ChunkInit ==
    /\ docs \in {d \in SeqUpTo(FilePool, MaxFiles) :
                    \A i, j \in Indexes(d) : i # j => d[i] # d[j]}
    /\ \E cfg \in ChunkerConfigs :
          /\ chunk_size = cfg[1]
          /\ chunk_overlap = cfg[2]
          /\ min_chunk_size = cfg[3]
    /\ runs = <<>>
    /\ all_chunks = None

\* ContentChunker.chunk_content on the parsed content of a readable file.
ChunkContent ==
    /\ Len(runs) < MaxRuns
    /\ \E k \in Indexes(docs) :
          /\ docs[k].readable
          /\ runs' = Append(runs, [doc |-> k,
                                   chunks |-> chunk_content(parse_content(docs[k]))])
    /\ UNCHANGED <<docs, chunk_size, chunk_overlap, min_chunk_size, all_chunks>>
    /\ UNCHANGED notChunkVars

\* parse_textbook_directory on the docs directory.
ParseTextbookDirectory ==
    /\ all_chunks = None
    /\ all_chunks' = [none |-> FALSE, chunks |-> parse_textbook_directory(docs)]
    /\ UNCHANGED <<docs, chunk_size, chunk_overlap, min_chunk_size, runs>>
    /\ UNCHANGED notChunkVars

ChunkNext == ChunkContent \/ ParseTextbookDirectory

\* The ids of a chunk list, position by position.
IdsOf(chunks) == [k \in Indexes(chunks) |-> chunks[k].id]

C4_ChunkIdsGloballyUnique ==
    ~all_chunks.none =>
        \A i, j \in Indexes(all_chunks.chunks) :
            i # j => all_chunks.chunks[i].id # all_chunks.chunks[j].id

\* The chunk texts _split_text yields for the sections of a file, in order.
RECURSIVE WouldBeTexts(_, _)
WouldBeTexts(sections, s) ==
    IF s > Len(sections) THEN <<>>
    ELSE _split_text(sections[s].paragraphs) \o WouldBeTexts(sections, s + 1)

\* C14: every chunk chunk_content emits has token_count = len(content) // 4
\* of at least min_chunk_size; the texts below the floor are discarded and
\* take no position: the emitted chunks are the texts at or above the
\* floor, in order, at positions 0, 1, 2, ...
C14_NoChunkBelowMinimum ==
    \A r \in Indexes(runs) :
        LET chunks == runs[r].chunks
            kept == SelectSeq(WouldBeTexts(docs[runs[r].doc].sections, 1),
                              LAMBDA t : t.len \div 4 >= min_chunk_size)
        IN  /\ Len(chunks) = Len(kept)
            /\ \A k \in Indexes(chunks) :
                   /\ chunks[k].token_count = chunks[k].content.len \div 4
                   /\ chunks[k].token_count >= min_chunk_size
                   /\ chunks[k].content = kept[k]
                   /\ chunks[k].position = k - 1

\* The first text of a file fell below the floor and was discarded; the
\* chunks after it were emitted from position 0.
C14_Witness ==
    \E r \in Indexes(runs) :
        LET would_be == WouldBeTexts(docs[runs[r].doc].sections, 1)
        IN  /\ Len(would_be) >= 3
            /\ would_be[1].len \div 4 < min_chunk_size
            /\ Len(runs[r].chunks) = Len(would_be) - 1
            /\ runs[r].chunks[1].position = 0

\* The paragraphs of a section without the white-space paragraphs at its
\* start and end, which _extract_sections strips.
RECURSIVE StripParagraphs(_)
StripParagraphs(paragraphs) ==
    IF paragraphs = <<>> THEN <<>>
    ELSE IF Head(paragraphs) = <<>> THEN StripParagraphs(Tail(paragraphs))
    ELSE IF paragraphs[Len(paragraphs)] = <<>>
    THEN StripParagraphs(SubSeq(paragraphs, 1, Len(paragraphs) - 1))
    ELSE paragraphs

\* The length of a section's content: its paragraphs, a blank line between
\* two, a white-space paragraph being one space.
SectionLen(section) ==
    LET paragraphs == StripParagraphs(section.paragraphs)
    IN  JoinLen([k \in Indexes(paragraphs) |->
                    IF paragraphs[k] = <<>> THEN 1 ELSE ParaLen(paragraphs[k])],
                2)

\* The number of chunks of a run that came from the section of a heading.
ChunksOfSection(run, heading) ==
    Cardinality({k \in Indexes(run.chunks) :
                    run.chunks[k].metadata.section_title = heading})

\* C19: a section whose estimated token count (len // 4) exceeds chunk_size
\* is split into at least 2 chunks; a section whose estimate is at most
\* chunk_size yields at most 1 chunk, and none if it is below the minimum.
C19_LargeSectionIsSplit ==
    \A r \in Indexes(runs) :
        \A s \in Indexes(docs[runs[r].doc].sections) :
            LET section == docs[runs[r].doc].sections[s]
                estimate == SectionLen(section) \div 4
                n == ChunksOfSection(runs[r], section.heading)
            IN  /\ estimate > chunk_size => n >= 2
                /\ estimate <= chunk_size => n <= 1
                /\ estimate < min_chunk_size => n = 0


\* The token estimates of the paragraphs of a chunk text, summed: the
\* running current_size of _split_text when the chunk was yielded.
RECURSIVE SumOfEstimates(_)
SumOfEstimates(paras) ==
    IF paras = <<>> THEN 0
    ELSE estimate_tokens(ParaLen(Head(paras))) + SumOfEstimates(Tail(paras))

\* C24: every chunk text _split_text yields by accumulating paragraphs that
\* each fit in chunk_size, those seeded with the overlap window included,
\* has paragraph estimates that sum to at most chunk_size.
C24_AccumulatedChunkWithinSize ==
    \A r \in Indexes(runs) :
        LET yielded == WouldBeTexts(docs[runs[r].doc].sections, 1)
        IN  \A k \in Indexes(yielded) :
                yielded[k].kind = "paragraphs" =>
                    SumOfEstimates(yielded[k].parts) <= chunk_size


\* The paragraphs of a section that are not white space only.
NonEmptyParagraphs(paragraphs) ==
    SelectSeq(paragraphs, LAMBDA para : ParaLen(para) # 0)

\* The sentences of a paragraph that are not empty.
NonEmptySentences(para) == SelectSeq(para, LAMBDA sentence : sentence # 0)

\* The chunk texts from the k-th on carry the paragraphs from `next` on, in
\* order and with nothing left out: a chunk of whole paragraphs repeats
\* some of the paragraphs just before `next` and goes on with the ones from
\* `next`; a chunk of sentences holds the next sentences of paragraph
\* `next`, of which `sent` have been carried already.
RECURSIVE CarriedInOrder(_, _, _, _, _)
CarriedInOrder(yielded, k, paras, next, sent) ==
    IF k > Len(yielded) THEN next = Len(paras) + 1 /\ sent = 0
    ELSE LET parts == yielded[k].parts
         IN  IF yielded[k].kind = "paragraphs"
             THEN /\ sent = 0
                  /\ \E o \in 0..(Len(parts) - 1) :
                        /\ o < next
                        /\ next + Len(parts) - o - 1 <= Len(paras)
                        /\ parts = SubSeq(paras, next - o,
                                          next + Len(parts) - o - 1)
                        /\ CarriedInOrder(yielded, k + 1, paras,
                                          next + Len(parts) - o, 0)
             ELSE /\ next <= Len(paras)
                  /\ estimate_tokens(ParaLen(paras[next])) > chunk_size
                  /\ parts[1] # <<>>
                  /\ LET all == NonEmptySentences(paras[next])
                         upto == sent + Len(parts[1])
                     IN  /\ upto <= Len(all)
                         /\ parts[1] = SubSeq(all, sent + 1, upto)
                         /\ IF upto = Len(all)
                            THEN CarriedInOrder(yielded, k + 1, paras,
                                                next + 1, 0)
                            ELSE CarriedInOrder(yielded, k + 1, paras,
                                                next, upto)

\* C29: _split_text loses no content: every paragraph of the section that
\* is not white space is in at least one yielded chunk, every sentence of
\* a paragraph above chunk_size is in exactly one, and the chunks follow
\* the order of the document.
C29_SplitTextLosesNothing ==
    \A r \in Indexes(runs) :
        \A s \in Indexes(docs[runs[r].doc].sections) :
            LET paragraphs == docs[runs[r].doc].sections[s].paragraphs
            IN  CarriedInOrder(_split_text(paragraphs), 1,
                               NonEmptyParagraphs(paragraphs), 1, 0)

\* C29's case: a file was chunked of which one section yields a chunk that
\* repeats the last paragraph of the chunk before it, and another has a
\* paragraph above chunk_size that comes out as three chunks of sentences.
C29_Witness ==
    \E r \in Indexes(runs) :
        LET yielded == WouldBeTexts(docs[runs[r].doc].sections, 1)
        IN  /\ \E k \in 2..Len(yielded) :
                  /\ yielded[k].kind = "paragraphs"
                  /\ yielded[k - 1].kind = "paragraphs"
                  /\ Len(yielded[k].parts) = 2
                  /\ yielded[k].parts[1]
                        = yielded[k - 1].parts[Len(yielded[k - 1].parts)]
            /\ \E k \in 3..Len(yielded) :
                  /\ yielded[k].kind = "sentences"
                  /\ yielded[k - 1].kind = "sentences"
                  /\ yielded[k - 2].kind = "sentences"

-----------------------------------------------------------------------------
(* Embedding service. *)

\* Most texts handed to generate_embeddings.
MaxTexts == 3

\* The batch caps, scaled down from 100 texts and 8000 estimated tokens.
MAX_BATCH_SIZE == 2
MAX_TOKENS_PER_BATCH == 8

\* The retry configuration, in attempts and seconds.
MAX_RETRIES == 3
INITIAL_RETRY_DELAY == 1
MAX_RETRY_DELAY == 60

\* The texts a caller may pass: of 0, 1, 5 and 10 estimated tokens.
TextPool == { "", "abcd", "twenty characters...",
              "a text of forty characters, ten tokens.." }

\* The retry_after a RateLimitError may carry: none, 0, or seconds.
NoRetryAfter == [none |-> TRUE]
RetryAfter(seconds) == [none |-> FALSE, seconds |-> seconds]
RetryAfters == {NoRetryAfter, RetryAfter(0), RetryAfter(30)}

\* The vector the provider returns for a text.
Embedding(text) == <<"embedding", text>>

\* The prompt tokens the provider reports for a batch.
RECURSIVE PromptTokens(_)
PromptTokens(batch) ==
    IF batch = <<>> THEN 0
    ELSE Len(Head(batch)) \div 4 + PromptTokens(Tail(batch))

\* A batching that closes the batch and forgets the text that closed it.
RECURSIVE BatchLoopDropping(_, _, _, _, _)
BatchLoopDropping(txts, i, out, current_batch, current_tokens) ==
    IF i > Len(txts)
    THEN IF current_batch # <<>> THEN Append(out, current_batch) ELSE out
    ELSE LET estimated_tokens == Len(txts[i]) \div 4
         IN  IF \/ Len(current_batch) >= MAX_BATCH_SIZE
                \/ current_tokens + estimated_tokens > MAX_TOKENS_PER_BATCH
             THEN BatchLoopDropping(txts, i + 1,
                      IF current_batch # <<>> THEN Append(out, current_batch)
                      ELSE out,
                      <<>>, 0)
             ELSE BatchLoopDropping(txts, i + 1, out,
                      Append(current_batch, txts[i]),
                      current_tokens + estimated_tokens)
_create_batches_dropping(txts) == BatchLoopDropping(txts, 1, <<>>, <<>>, 0)

\* A batching whose count test lets one text too many into a batch.
RECURSIVE BatchLoopOverfull(_, _, _, _, _)
BatchLoopOverfull(txts, i, out, current_batch, current_tokens) ==
    IF i > Len(txts)
    THEN IF current_batch # <<>> THEN Append(out, current_batch) ELSE out
    ELSE LET estimated_tokens == Len(txts[i]) \div 4
         IN  IF \/ Len(current_batch) > MAX_BATCH_SIZE
                \/ current_tokens + estimated_tokens > MAX_TOKENS_PER_BATCH
             THEN BatchLoopOverfull(txts, i + 1,
                      IF current_batch # <<>> THEN Append(out, current_batch)
                      ELSE out,
                      <<txts[i]>>, estimated_tokens)
             ELSE BatchLoopOverfull(txts, i + 1, out,
                      Append(current_batch, txts[i]),
                      current_tokens + estimated_tokens)

\* The loop of _create_batches, from text i on.
RECURSIVE BatchLoop(_, _, _, _, _)
BatchLoop(txts, i, out, current_batch, current_tokens) ==
    IF i > Len(txts)
    THEN IF current_batch # <<>> THEN Append(out, current_batch) ELSE out
    ELSE LET estimated_tokens == Len(txts[i]) \div 4
         IN  IF \/ Len(current_batch) >= MAX_BATCH_SIZE
                \/ current_tokens + estimated_tokens > MAX_TOKENS_PER_BATCH
             THEN BatchLoop(txts, i + 1,
                      IF current_batch # <<>> THEN Append(out, current_batch)
                      ELSE out,
                      <<txts[i]>>, estimated_tokens)
             ELSE BatchLoop(txts, i + 1, out,
                      Append(current_batch, txts[i]),
                      current_tokens + estimated_tokens)

\* EmbeddingService._create_batches.
_create_batches(txts) == BatchLoop(txts, 1, <<>>, <<>>, 0)

\* EmbeddingService._process_batch, the provider having answered with one
\* vector per input, in input order.
_process_batch(batch) ==
    [i \in Indexes(batch) |->
        [text |-> batch[i], embedding |-> Embedding(batch[i]),
         token_count |-> PromptTokens(batch) \div Len(batch)]]

\* The log of provider calls with one more outcome; a call that follows a
\* success opens the next batch's retry loop, and a new log.
Logged(outcome) ==
    IF provider_calls # <<>> /\ provider_calls[Len(provider_calls)] = "success"
    THEN <<outcome>>
    ELSE Append(provider_calls, outcome)

\* A final-attempt test that is off by one.
IsFinalAttemptOffByOne(n) == n = MAX_RETRIES

\* The test "attempt == self.MAX_RETRIES - 1" of the retry loop.
IsFinalAttempt(n) == n = MAX_RETRIES - 1

\* A call of generate_embeddings about to start.
EmbInit ==
    /\ texts \in SeqUpTo(TextPool, MaxTexts)
    /\ emb_pc = "idle"
    /\ batches = <<>>
    /\ batch_idx = 0
    /\ attempt = 0
    /\ retry_delay = INITIAL_RETRY_DELAY
    /\ provider_calls = <<>>
    /\ sleeps = <<>>
    /\ all_results = <<>>
    /\ emb_error = "none"

\* generate_embeddings up to its first provider call: the empty list returns
\* at once, any other is batched and the first batch enters the retry loop.
GenerateEmbeddings ==
    /\ emb_pc = "idle"
    /\ IF texts = <<>>
       THEN /\ emb_pc' = "returned"
            /\ UNCHANGED <<batches, batch_idx>>
       ELSE /\ emb_pc' = "call"
            /\ batches' = _create_batches(texts)
            /\ batch_idx' = 1
    /\ UNCHANGED <<texts, attempt, retry_delay, provider_calls, sleeps,
                   all_results, emb_error>>
    /\ UNCHANGED notEmbVars

\* The provider call of this attempt succeeds: _process_batch_with_retry
\* returns its results, which generate_embeddings appends; the next batch
\* starts a fresh retry loop, and after the last batch the call returns.
ProviderSucceeds ==
    /\ emb_pc = "call"
    /\ provider_calls' = Logged("success")
    /\ all_results' = all_results \o _process_batch(batches[batch_idx])
    /\ IF batch_idx = Len(batches)
       THEN /\ emb_pc' = "returned"
            /\ UNCHANGED <<batch_idx, attempt, retry_delay, sleeps>>
       ELSE /\ emb_pc' = "call"
            /\ batch_idx' = batch_idx + 1
            /\ attempt' = 0
            /\ retry_delay' = INITIAL_RETRY_DELAY
            /\ sleeps' = <<>>
    /\ UNCHANGED <<texts, batches, emb_error>>
    /\ UNCHANGED notEmbVars

\* A retry step that counts the attempts of rate-limit errors only.
SleepAndRetryPerKind(error, retry_after, wait_time) ==
    /\ sleeps' = Append(sleeps, [after |-> error, retry_after |-> retry_after,
                                 wait_time |-> wait_time])
    /\ retry_delay' = Min(retry_delay * 2, MAX_RETRY_DELAY)
    /\ attempt' = IF error = "APIError" THEN attempt ELSE attempt + 1
    /\ IF attempt' < MAX_RETRIES
       THEN emb_pc' = "call" /\ UNCHANGED emb_error
       ELSE emb_pc' = "raised" /\ emb_error' = "RuntimeError"

\* What follows a caught error that was not the final attempt's: the sleep,
\* the doubled delay and the next turn of the loop; a loop that ends without
\* returning or raising reaches the trailing RuntimeError.
SleepAndRetry(error, retry_after, wait_time) ==
    /\ sleeps' = Append(sleeps, [after |-> error, retry_after |-> retry_after,
                                 wait_time |-> wait_time])
    /\ retry_delay' = Min(retry_delay * 2, MAX_RETRY_DELAY)
    /\ attempt' = attempt + 1
    /\ IF attempt + 1 < MAX_RETRIES
       THEN emb_pc' = "call" /\ UNCHANGED emb_error
       ELSE emb_pc' = "raised" /\ emb_error' = "RuntimeError"

\* The provider call of this attempt raises RateLimitError.
ProviderRateLimited ==
    /\ emb_pc = "call"
    /\ \E retry_after \in RetryAfters :
         /\ provider_calls' = Logged("RateLimitError")
         /\ IF IsFinalAttempt(attempt)
            THEN /\ emb_pc' = "raised"
                 /\ emb_error' = "RateLimitError"
                 /\ UNCHANGED <<attempt, retry_delay, sleeps>>
            ELSE SleepAndRetry("RateLimitError", retry_after,
                               IF ~retry_after.none /\ retry_after.seconds # 0
                               THEN retry_after.seconds ELSE retry_delay)
    /\ UNCHANGED <<texts, batches, batch_idx, all_results>>
    /\ UNCHANGED notEmbVars

\* The provider call of this attempt raises another APIError.
ProviderAPIError ==
    /\ emb_pc = "call"
    /\ provider_calls' = Logged("APIError")
    /\ IF IsFinalAttempt(attempt)
       THEN /\ emb_pc' = "raised"
            /\ emb_error' = "APIError"
            /\ UNCHANGED <<attempt, retry_delay, sleeps>>
       ELSE SleepAndRetry("APIError", NoRetryAfter, retry_delay)
    /\ UNCHANGED <<texts, batches, batch_idx, all_results>>
    /\ UNCHANGED notEmbVars

\* The attempt raises an exception the loop does not catch (a response with
\* too few vectors, say): it propagates at once.
ProviderOtherError ==
    /\ emb_pc = "call"
    /\ provider_calls' = Logged("Exception")
    /\ emb_pc' = "raised"
    /\ emb_error' = "Exception"
    /\ UNCHANGED <<texts, batches, batch_idx, attempt, retry_delay, sleeps,
                   all_results>>
    /\ UNCHANGED notEmbVars

EmbNext ==
    \/ GenerateEmbeddings
    \/ ProviderSucceeds
    \/ ProviderRateLimited
    \/ ProviderAPIError
    \/ ProviderOtherError

\* The concatenation of the batches of a list, in order.
RECURSIVE Flatten(_)
Flatten(bs) == IF bs = <<>> THEN <<>> ELSE Head(bs) \o Flatten(Tail(bs))

\* The last outcome logged.
LastCall == provider_calls[Len(provider_calls)]

\* C8: for every mix of provider outcomes, _process_batch_with_retry makes
\* at most MAX_RETRIES provider calls: it returns at the first success, a
\* failure of the final permitted attempt propagates that attempt's error,
\* the loop never waits for a call it cannot make, and the trailing
\* RuntimeError is never raised.
C8_RetryLoopBounded ==
    /\ Len(provider_calls) <= MAX_RETRIES
    /\ \A k \in Indexes(provider_calls) :
           provider_calls[k] = "success" => k = Len(provider_calls)
    /\ emb_pc = "call" =>
           /\ attempt < MAX_RETRIES
           /\ attempt = IF provider_calls # <<>> /\ LastCall = "success"
                        THEN 0 ELSE Len(provider_calls)
           /\ ENABLED ProviderSucceeds
    /\ (emb_pc = "returned" /\ texts # <<>>) => LastCall = "success"
    /\ (Len(provider_calls) = MAX_RETRIES /\ LastCall # "success") =>
           emb_pc = "raised"
    /\ emb_pc = "raised" =>
           /\ emb_error = LastCall
           /\ emb_error # "RuntimeError"

\* C8's case: two failures of different kinds were retried and the third,
\* final attempt failed too; its error left the loop.
C8_Witness ==
    /\ provider_calls = <<"RateLimitError", "APIError", "RateLimitError">>
    /\ emb_pc = "raised"
    /\ emb_error = "RateLimitError"
    /\ Len(sleeps) = 2

\* C9: the batches of _create_batches, concatenated in order, are the input
\* list, and none is empty; when generate_embeddings returns it returns one
\* result per text, the i-th being that of texts[i].
C9_EmbeddingsOrderPreserving ==
    /\ (emb_pc # "idle" /\ texts # <<>>) =>
           /\ Flatten(batches) = texts
           /\ \A b \in Indexes(batches) : batches[b] # <<>>
    /\ emb_pc = "returned" =>
           /\ Len(all_results) = Len(texts)
           /\ \A i \in Indexes(texts) :
                  /\ all_results[i].text = texts[i]
                  /\ all_results[i].embedding = Embedding(texts[i])

\* C9's case: three different texts, the second closing the first batch by
\* its tokens, were embedded in several batches, every call succeeding.
C9_Witness ==
    /\ emb_pc = "returned"
    /\ Len(texts) >= 3
    /\ texts[1] # texts[2] /\ texts[2] # texts[3] /\ texts[1] # texts[3]
    /\ Len(batches) >= 2
    /\ Len(all_results) = Len(texts)

\* The estimated tokens (len // 4) of the texts of a list, summed.
RECURSIVE EstimatedTokens(_)
EstimatedTokens(txts) ==
    IF txts = <<>> THEN 0
    ELSE Len(Head(txts)) \div 4 + EstimatedTokens(Tail(txts))

\* The number of groups of MAX_BATCH_SIZE in n texts, the last maybe short.
CountBatches(n) == (n + MAX_BATCH_SIZE - 1) \div MAX_BATCH_SIZE

\* The k-th group of MAX_BATCH_SIZE consecutive texts of a list.
CountBatch(txts, k) ==
    SubSeq(txts, (k - 1) * MAX_BATCH_SIZE + 1,
           Min(k * MAX_BATCH_SIZE, Len(txts)))

\* The token cap is never reached: each group of MAX_BATCH_SIZE consecutive
\* texts stays within MAX_TOKENS_PER_BATCH.
TokenCapNeverReached(txts) ==
    \A k \in 1..CountBatches(Len(txts)) :
        EstimatedTokens(CountBatch(txts, k)) <= MAX_TOKENS_PER_BATCH

\* C15: for n texts short enough that the token cap is never reached,
\* _create_batches gives exactly ceil(n / MAX_BATCH_SIZE) batches, each of
\* exactly MAX_BATCH_SIZE texts except possibly the last.
C15_BatchCountByBatchSize ==
    (emb_pc # "idle" /\ texts # <<>> /\ TokenCapNeverReached(texts)) =>
        /\ Len(batches) = CountBatches(Len(texts))
        /\ \A b \in Indexes(batches) :
               /\ b < Len(batches) => Len(batches[b]) = MAX_BATCH_SIZE
               /\ batches[b] = CountBatch(texts, b)

\* One text more than a batch holds, all short: a full batch and a batch of
\* one.
C15_Witness ==
    /\ emb_pc # "idle"
    /\ Len(texts) = MAX_BATCH_SIZE + 1
    /\ TokenCapNeverReached(texts)
    /\ \E i \in Indexes(texts) : Len(texts[i]) \div 4 > 0
    /\ Len(batches) = 2
    /\ Len(batches[1]) = MAX_BATCH_SIZE
    /\ Len(batches[2]) = 1

\* C16: every batch of _create_batches, for every input list, holds at most
\* MAX_BATCH_SIZE texts and at most MAX_TOKENS_PER_BATCH estimated tokens.
C16_BatchesRespectBothCaps ==
    emb_pc # "idle" =>
        \A b \in Indexes(batches) :
            /\ Len(batches[b]) <= MAX_BATCH_SIZE
            /\ EstimatedTokens(batches[b]) <= MAX_TOKENS_PER_BATCH


\* 2 to the power n.
RECURSIVE Pow2(_)
Pow2(n) == IF n = 0 THEN 1 ELSE 2 * Pow2(n - 1)

\* The failed provider calls of the current retry loop.
FailedCalls == {k \in Indexes(provider_calls) : provider_calls[k] # "success"}

\* C23: the sleep before a retry after a rate-limit error is the error's
\* retry_after when it has one, and otherwise the current backoff delay;
\* without a retry_after the k-th sleep is
\* min(INITIAL_RETRY_DELAY * 2^(k-1), MAX_RETRY_DELAY); and the final failed
\* attempt is followed by no sleep.
C23_RetrySleeps ==
    /\ \A k \in Indexes(sleeps) :
          /\ (sleeps[k].after = "RateLimitError" /\ ~sleeps[k].retry_after.none)
                => sleeps[k].wait_time = sleeps[k].retry_after.seconds
          /\ sleeps[k].retry_after.none
                => sleeps[k].wait_time
                      = Min(INITIAL_RETRY_DELAY * Pow2(k - 1), MAX_RETRY_DELAY)
          /\ sleeps[k].wait_time <= MAX_RETRY_DELAY
    /\ Len(sleeps) <= MAX_RETRIES - 1
    /\ (emb_pc = "raised" /\ emb_error \in {"RateLimitError", "APIError"})
          => Len(sleeps) = Cardinality(FailedCalls) - 1


\* The provider calls of the current retry loop that raised the error.
CallsRaising(error) ==
    {k \in Indexes(provider_calls) : provider_calls[k] = error}

\* C25 as stated: rate-limit errors and other API errors have separate
\* attempt budgets, so an error leaves the retry loop only after
\* MAX_RETRIES failures of its own kind.
C25_SeparateRetryBudgets ==
    (emb_pc = "raised" /\ emb_error \in {"RateLimitError", "APIError"})
        => Cardinality(CallsRaising(emb_error)) = MAX_RETRIES

\* C25, amended: the two kinds of error share one attempt budget. Each
\* caught failure, of either kind, takes one of the MAX_RETRIES attempts,
\* and the error of the MAX_RETRIES-th failure leaves the loop whatever the
\* kinds of the failures before it.
C25_SharedRetryBudget ==
    /\ (emb_pc = "call" /\ ~(provider_calls # <<>> /\ LastCall = "success"))
          => attempt = Cardinality(CallsRaising("RateLimitError"))
                         + Cardinality(CallsRaising("APIError"))
    /\ (emb_pc = "raised" /\ emb_error \in {"RateLimitError", "APIError"})
          => /\ Cardinality(CallsRaising("RateLimitError"))
                  + Cardinality(CallsRaising("APIError")) = MAX_RETRIES
             /\ LastCall = emb_error

\* C25's case: two rate-limit failures were retried, the third attempt met
\* its first API error, and that error left the loop.
C25_Witness ==
    /\ provider_calls = <<"RateLimitError", "RateLimitError", "APIError">>
    /\ emb_pc = "raised"
    /\ emb_error = "APIError"

-----------------------------------------------------------------------------
(* Indexer. *)

\* Most chunks handed to one indexer call.
MaxIndexChunks == 3

\* The upsert sub-batch size, scaled down from 100.
UPSERT_BATCH_SIZE == 2

\* A ContentChunk as the indexer reads it.
ContentChunk(id, chapter_id, content) ==
    [id |-> id, chapter_id |-> chapter_id, content |-> content]

\* The chunks a caller may hand to the indexer.
IndexPool ==
    { ContentChunk("a0", "ch-a", "a0 new"), ContentChunk("a1", "ch-a", "a1 new"),
      ContentChunk("a3", "ch-a", "a3 new"), ContentChunk("b0", "ch-b", "b0 new") }

\* The chapters a caller may re-index.
ChapterIds == {"ch-a", "ch-b"}

\* A stored point: its id and the payload fields read here.
Point(id, chapter_id, content) ==
    [id |-> id, chapter_id |-> chapter_id, content |-> content]

\* The collections an indexer call may find: empty, or an earlier indexing
\* of a longer chapter ch-a and of ch-b.
Stores ==
    { {},
      { Point("a0", "ch-a", "a0 old"), Point("a1", "ch-a", "a1 old"),
        Point("a2", "ch-a", "a2 old"), Point("b0", "ch-b", "b0 old"),
        Point("b1", "ch-b", "b1 old") } }

\* The embedding results of a successful generate_embeddings: one per text.
EmbeddingResults(chunk_list) ==
    [k \in Indexes(chunk_list) |->
        [text |-> chunk_list[k].content,
         embedding |-> Embedding(chunk_list[k].content)]]

\* zip(chunks, embedding_results) made into IndexedChunks.
IndexedChunks(chunk_list, embedding_results) ==
    [k \in 1..Min(Len(chunk_list), Len(embedding_results)) |->
        [id |-> chunk_list[k].id,
         content |-> chunk_list[k].content,
         embedding |-> embedding_results[k].embedding,
         metadata |-> [chapter_id |-> chunk_list[k].chapter_id,
                       content |-> chunk_list[k].content]]]

\* The slice indexed_chunks[i : i + UPSERT_BATCH_SIZE], i counted from 0.
BatchAt(indexed_chunks, i) ==
    SubSeq(indexed_chunks, i + 1, Min(i + UPSERT_BATCH_SIZE, Len(indexed_chunks)))

\* The vector store's upsert: each point replaces the point of its id; of
\* two points of one id in a request the later stays.
RECURSIVE Upsert(_, _)
Upsert(points, batch) ==
    IF batch = <<>> THEN points
    ELSE Upsert({p \in points : p.id # Head(batch).id}
                  \cup {Point(Head(batch).id, Head(batch).metadata.chapter_id,
                              Head(batch).metadata.content)},
                Tail(batch))

\* A delete that ignores its filter and removes every point.
DeleteEverything(points, chapter_id) == {}

\* A delete whose filter is inverted: it keeps the chapter's points and
\* removes the others.
DeleteOtherChapters(points, chapter_id) ==
    {p \in points : p.chapter_id = chapter_id}

\* A delete that removes nothing.
DeleteNothing(points, chapter_id) == points

\* The vector store's delete by the filter chapter_id = value.
DeleteByFilter(points, chapter_id) == {p \in points : p.chapter_id # chapter_id}

\* The IndexingResult of the empty chunk list.
EmptyResult ==
    [total_chunks |-> 0, indexed_chunks |-> 0, failed_chunks |-> 0,
     chapters_processed |-> {}, errors |-> <<>>]

\* An embedding failure reported with no chunk counted as failed.
EmbeddingFailedUncounted(chunk_list) ==
    [total_chunks |-> Len(chunk_list), indexed_chunks |-> 0,
     failed_chunks |-> 0, chapters_processed |-> {},
     errors |-> <<[kind |-> "Embedding generation failed", batch |-> 0]>>]

\* The IndexingResult returned when generate_embeddings raised.
EmbeddingFailedResult(chunk_list) ==
    [total_chunks |-> Len(chunk_list), indexed_chunks |-> 0,
     failed_chunks |-> Len(chunk_list), chapters_processed |-> {},
     errors |-> <<[kind |-> "Embedding generation failed", batch |-> 0]>>]

\* An upsert failure that ends the loop over the sub-batches.
AfterUpsertFailureAborting(call) ==
    [call EXCEPT
        !.failed_count = @ + Len(BatchAt(call.indexed_chunks, call.i)),
        !.errors = Append(@, [kind |-> "Failed to upsert batch",
                              batch |-> call.i \div UPSERT_BATCH_SIZE + 1]),
        !.i = Len(call.indexed_chunks)]

\* The locals of index_chunks after the upsert of the sub-batch at i raised.
AfterUpsertFailure(call) ==
    [call EXCEPT
        !.failed_count = @ + Len(BatchAt(call.indexed_chunks, call.i)),
        !.errors = Append(@, [kind |-> "Failed to upsert batch",
                              batch |-> call.i \div UPSERT_BATCH_SIZE + 1]),
        !.i = @ + UPSERT_BATCH_SIZE]

\* The locals of index_chunks after the upsert of the sub-batch at i.
AfterUpsertSuccess(call) ==
    [call EXCEPT
        !.indexed_count = @ + Len(BatchAt(call.indexed_chunks, call.i)),
        !.i = @ + UPSERT_BATCH_SIZE]

\* The end of the loop over the sub-batches: the call returns its result.
ReturnIfDone(call) ==
    IF call.i < Len(call.indexed_chunks) THEN call
    ELSE [call EXCEPT
            !.pc = "returned",
            !.result =
                [total_chunks |-> Len(call.chunks),
                 indexed_chunks |-> call.indexed_count,
                 failed_chunks |-> call.failed_count,
                 chapters_processed |->
                     {call.indexed_chunks[k].metadata.chapter_id :
                          k \in Indexes(call.indexed_chunks)},
                 errors |-> call.errors]]

\* A call of index_chunks or reindex_chapter about to start.
NewCall(op, chapter_id, chunk_list) ==
    [op |-> op, chapter_id |-> chapter_id, chunks |-> chunk_list,
     pc |-> IF op = "reindex_chapter" THEN "delete" ELSE "embed",
     deleted |-> "no", embedded |-> "no",
     indexed_chunks |-> <<>>, i |-> 0, indexed_count |-> 0,
     failed_count |-> 0, errors |-> <<>>, result |-> EmptyResult]

\* The calls an indexer may be asked for.
NewCalls ==
    {NewCall("index_chunks", "", cs) : cs \in SeqUpTo(IndexPool, MaxIndexChunks)}
    \cup {NewCall("reindex_chapter", ch, cs) :
              ch \in ChapterIds, cs \in SeqUpTo(IndexPool, MaxIndexChunks)}

\* One indexer call on a collection.
IdxInit ==
    /\ store \in Stores
    /\ initial_store = store
    /\ store_log = <<>>
    /\ calls \in [{1} -> NewCalls]

\* The chunks of each chapter that concurrent re-indexings may be handed;
\* the ids s0 and s1 are used by a chunk of either chapter.
ChapterPool(chapter_id) ==
    IF chapter_id = "ch-a"
    THEN { ContentChunk("a0", "ch-a", "a0 new"),
           ContentChunk("s0", "ch-a", "s0 of a"),
           ContentChunk("s1", "ch-a", "s1 of a") }
    ELSE { ContentChunk("b0", "ch-b", "b0 new"),
           ContentChunk("s0", "ch-b", "s0 of b"),
           ContentChunk("s1", "ch-b", "s1 of b") }

\* The lists of up to MaxIndexChunks different chunks of a chapter.
ChapterLists(chapter_id) ==
    {cs \in SeqUpTo(ChapterPool(chapter_id), MaxIndexChunks) :
        \A i, j \in Indexes(cs) : i # j => cs[i] # cs[j]}

\* Two re-indexings running concurrently, of ch-a and of ch-b, each with
\* chunks of its own chapter.
IdxInitConcurrent ==
    /\ store \in Stores
    /\ initial_store = store
    /\ store_log = <<>>
    /\ \E ca \in ChapterLists("ch-a"), cb \in ChapterLists("ch-b") :
          calls = <<NewCall("reindex_chapter", "ch-a", ca),
                    NewCall("reindex_chapter", "ch-b", cb)>>

\* Two re-indexings of the one chapter ch-a running concurrently, with
\* different chunk sets.
IdxInitSameChapter ==
    /\ store \in Stores
    /\ initial_store = store
    /\ store_log = <<>>
    /\ \E ca \in ChapterLists("ch-a"), cb \in ChapterLists("ch-a") :
          /\ {ca[k].id : k \in Indexes(ca)} # {cb[k].id : k \in Indexes(cb)}
          /\ calls = <<NewCall("reindex_chapter", "ch-a", ca),
                       NewCall("reindex_chapter", "ch-a", cb)>>

\* reindex_chapter, its delete_chapter: without a connection it raises
\* before any request; the delete request either removes the chapter's
\* points or raises, and an exception leaves reindex_chapter.
DeleteChapter ==
 \E c \in DOMAIN calls :
    /\ calls[c].pc = "delete"
    /\ \E outcome \in {"ok", "not connected", "raised"} :
         /\ calls' = [calls EXCEPT
                         ![c].deleted = outcome,
                         ![c].pc = IF outcome = "ok" THEN "embed" ELSE "raised"]
         /\ store' = IF outcome = "ok"
                     THEN DeleteByFilter(store, calls[c].chapter_id)
                     ELSE store
         /\ store_log' = IF outcome = "not connected" THEN store_log
                         ELSE Append(store_log,
                                     [call |-> c, op |-> "delete", batch |-> 0,
                                      ids |-> <<>>, ok |-> outcome = "ok"])
    /\ UNCHANGED initial_store
    /\ UNCHANGED notIdxVars

\* index_chunks up to its first upsert: the empty list returns at once; an
\* exception of generate_embeddings is caught and reported; otherwise the
\* chunks are paired with the embeddings returned, which the injected
\* embedding service may return one per chunk or fewer.
EmbedChunks ==
 \E c \in DOMAIN calls :
    /\ calls[c].pc = "embed"
    /\ IF calls[c].chunks = <<>>
       THEN calls' = [calls EXCEPT ![c].pc = "returned", ![c].result = EmptyResult]
       ELSE \E ok \in BOOLEAN, n \in 0..Len(calls[c].chunks) :
            /\ ~ok => n = 0
            /\ calls' = [calls EXCEPT ![c] =
                  IF ok
                  THEN ReturnIfDone(
                         [calls[c] EXCEPT
                            !.pc = "upsert",
                            !.embedded = IF n = Len(calls[c].chunks)
                                         THEN "ok" ELSE "short",
                            !.indexed_chunks =
                                IndexedChunks(
                                    calls[c].chunks,
                                    SubSeq(EmbeddingResults(calls[c].chunks),
                                           1, n))])
                  ELSE [calls[c] EXCEPT
                            !.pc = "returned",
                            !.embedded = "raised",
                            !.result = EmbeddingFailedResult(calls[c].chunks)]]
    /\ UNCHANGED <<store, store_log>>
    /\ UNCHANGED initial_store
    /\ UNCHANGED notIdxVars

\* One turn of the upsert loop of index_chunks: the sub-batch at i is sent;
\* an exception is caught, counted and reported, and the loop goes on.
UpsertBatch ==
 \E c \in DOMAIN calls :
    /\ calls[c].pc = "upsert"
    /\ \E ok \in BOOLEAN :
         /\ store' = IF ok THEN Upsert(store, BatchAt(calls[c].indexed_chunks,
                                                    calls[c].i))
                     ELSE store
         /\ store_log' = Append(store_log,
                                [call |-> c, op |-> "upsert",
                                 batch |-> calls[c].i \div UPSERT_BATCH_SIZE + 1,
                                 ids |-> [k \in Indexes(BatchAt(calls[c].indexed_chunks,
                                                               calls[c].i)) |->
                                            BatchAt(calls[c].indexed_chunks,
                                                    calls[c].i)[k].id],
                                 ok |-> ok])
         /\ calls' = [calls EXCEPT ![c] =
                         ReturnIfDone(IF ok THEN AfterUpsertSuccess(calls[c])
                                      ELSE AfterUpsertFailure(calls[c]))]
    /\ UNCHANGED initial_store
    /\ UNCHANGED notIdxVars

IdxNext == DeleteChapter \/ EmbedChunks \/ UpsertBatch

\* The upsert requests of call c, in the order they were issued.
UpsertsOf(c) == SelectSeq(store_log, LAMBDA e : e.call = c /\ e.op = "upsert")

\* The number of sub-batches of n chunks.
NumBatches(n) == (n + UPSERT_BATCH_SIZE - 1) \div UPSERT_BATCH_SIZE

\* The ids of the chunks of sub-batch k (from 1) of a chunk list.
BatchIds(chunk_list, k) ==
    [j \in 1..(Min(k * UPSERT_BATCH_SIZE, Len(chunk_list)) - (k - 1) * UPSERT_BATCH_SIZE) |->
        chunk_list[(k - 1) * UPSERT_BATCH_SIZE + j].id]

\* The number of chunks in the requests of a log that ended as `ok`.
RECURSIVE ChunksSent(_, _)
ChunksSent(log, ok) ==
    IF log = <<>> THEN 0
    ELSE (IF Head(log).ok = ok THEN Len(Head(log).ids) ELSE 0) + ChunksSent(Tail(log), ok)

\* C5: once the embeddings are there, index_chunks sends every sub-batch of
\* UPSERT_BATCH_SIZE chunks exactly once and in order; a failing upsert is
\* caught and the later sub-batches are still sent; the result counts the
\* chunks of the successful sub-batches as indexed and those of the failed
\* ones as failed, with one error per failed sub-batch, so failed_chunks > 0
\* exactly when errors is non-empty.
C5_UpsertBatchesAllAttempted ==
    \A c \in DOMAIN calls :
        LET call == calls[c]
            ups == UpsertsOf(c)
            failed == SelectSeq(ups, LAMBDA e : ~e.ok)
        IN  /\ \A k \in Indexes(ups) :
                  /\ ups[k].batch = k
                  /\ ups[k].ids = BatchIds(call.indexed_chunks, k)
            /\ Len(ups) <= NumBatches(Len(call.indexed_chunks))
            /\ call.pc = "upsert" => Len(ups) < NumBatches(Len(call.indexed_chunks))
            /\ failed # <<>> => call.pc \in {"upsert", "returned"}
            /\ (call.pc = "returned" /\ call.embedded = "ok") =>
                  /\ Len(ups) = NumBatches(Len(call.indexed_chunks))
                  /\ call.result.total_chunks = Len(call.chunks)
                  /\ call.result.indexed_chunks = ChunksSent(ups, TRUE)
                  /\ call.result.failed_chunks = ChunksSent(ups, FALSE)
                  /\ Len(call.result.errors) = Len(failed)
                  /\ \A k \in Indexes(failed) :
                        call.result.errors[k].batch = failed[k].batch
                  /\ call.result.failed_chunks > 0 <=> call.result.errors # <<>>

\* Three chunks in two sub-batches: the first upsert failed, the second was
\* still sent and succeeded.
C5_Witness ==
    \E c \in DOMAIN calls :
        /\ calls[c].pc = "returned"
        /\ calls[c].embedded = "ok"
        /\ Len(UpsertsOf(c)) = 2
        /\ ~UpsertsOf(c)[1].ok
        /\ UpsertsOf(c)[2].ok
        /\ calls[c].result.failed_chunks = 2
        /\ calls[c].result.indexed_chunks = 1
        /\ Len(calls[c].result.errors) = 1

\* C6: when generate_embeddings raises, index_chunks sends no upsert and
\* returns, without raising, a result with indexed_chunks = 0,
\* failed_chunks = total_chunks = len(chunks) and a non-empty errors.
C6_EmbeddingFailureReported ==
    \A c \in DOMAIN calls :
        calls[c].embedded = "raised" =>
            /\ calls[c].pc = "returned"
            /\ UpsertsOf(c) = <<>>
            /\ calls[c].result.indexed_chunks = 0
            /\ calls[c].result.failed_chunks = Len(calls[c].chunks)
            /\ calls[c].result.total_chunks = Len(calls[c].chunks)
            /\ calls[c].result.errors # <<>>

\* The embedding of three chunks raised.
C6_Witness ==
    \E c \in DOMAIN calls :
        /\ calls[c].embedded = "raised"
        /\ Len(calls[c].chunks) = 3
        /\ calls[c].result.failed_chunks = 3
        /\ calls[c].pc = "returned"

\* The delete of call c precedes each of its upserts.
DeleteBeforeUpserts(c) ==
    \A k \in Indexes(store_log) :
        (store_log[k].call = c /\ store_log[k].op = "upsert") =>
            \E j \in 1..(k - 1) :
                store_log[j].call = c /\ store_log[j].op = "delete" /\ store_log[j].ok

\* Every step of the re-indexing call c succeeded and it has returned.
ReindexSucceeded(c) ==
    /\ calls[c].op = "reindex_chapter"
    /\ calls[c].pc = "returned"
    /\ calls[c].deleted = "ok"
    /\ calls[c].chunks # <<>> => calls[c].embedded = "ok"
    /\ \A k \in Indexes(UpsertsOf(c)) : UpsertsOf(c)[k].ok

\* The ids of the stored points whose payload names the chapter.
StoredIds(chapter_id) == {p.id : p \in {q \in store : q.chapter_id = chapter_id}}

\* The ids of a chunk list.
ChunkIds(chunk_list) == {chunk_list[k].id : k \in Indexes(chunk_list)}

\* C7 as stated: reindex_chapter deletes before any upsert, and after a
\* re-indexing whose every step succeeded the stored points of the chapter
\* are exactly the ids of new_chunks.
C7_StoredIdsAreNewChunks ==
    \A c \in DOMAIN calls :
        calls[c].op = "reindex_chapter" =>
            /\ DeleteBeforeUpserts(c)
            /\ ReindexSucceeded(c) =>
                  StoredIds(calls[c].chapter_id) = ChunkIds(calls[c].chunks)

\* C7: reindex_chapter deletes before any upsert, and after a re-indexing
\* whose every step succeeded, of new_chunks that all carry the chapter_id
\* being re-indexed, the stored points of the chapter are exactly the ids
\* of new_chunks.
C7_StoredIdsAreNewChunksOfChapter ==
    \A c \in DOMAIN calls :
        calls[c].op = "reindex_chapter" =>
            /\ DeleteBeforeUpserts(c)
            /\ (/\ ReindexSucceeded(c)
                /\ \A k \in Indexes(calls[c].chunks) :
                      calls[c].chunks[k].chapter_id = calls[c].chapter_id) =>
                  StoredIds(calls[c].chapter_id) = ChunkIds(calls[c].chunks)

\* A longer ch-a was stored; it is re-indexed with a0, a1 and a3: the stale
\* a2 is gone, a3 is there, and ch-b is untouched.
C7_Witness ==
    \E c \in DOMAIN calls :
        /\ ReindexSucceeded(c)
        /\ calls[c].chapter_id = "ch-a"
        /\ ChunkIds(calls[c].chunks) = {"a0", "a1", "a3"}
        /\ StoredIds("ch-a") = {"a0", "a1", "a3"}
        /\ StoredIds("ch-b") = {"b0", "b1"}
        /\ Len(UpsertsOf(c)) = 2

\* The collection after reindex_chapter has run alone on `points`, every
\* step succeeding.
SequentialReindex(points, call) ==
    Upsert(DeleteByFilter(points, call.chapter_id),
           IndexedChunks(call.chunks, EmbeddingResults(call.chunks)))

\* Both concurrent re-indexings have returned, every step having succeeded.
BothReindexSucceeded ==
    /\ Len(calls) = 2
    /\ calls[1].chapter_id # calls[2].chapter_id
    /\ ReindexSucceeded(1) /\ ReindexSucceeded(2)
    /\ \A c \in {1, 2} : \A k \in Indexes(calls[c].chunks) :
           calls[c].chunks[k].chapter_id = calls[c].chapter_id

\* The collection is what running the two calls one after the other, in
\* one order or the other, leaves.
EqualsSequentialRun ==
    \/ store = SequentialReindex(SequentialReindex(initial_store, calls[1]),
                                 calls[2])
    \/ store = SequentialReindex(SequentialReindex(initial_store, calls[2]),
                                 calls[1])

RanBefore(x, y) ==
    \A i, j \in Indexes(store_log) :
        (store_log[i].call = x /\ store_log[j].call = y) => i < j

\* Two re-indexings of one chapter have returned, every step succeeded.
SameChapterBothSucceeded ==
    /\ Len(calls) = 2
    /\ calls[1].chapter_id = calls[2].chapter_id
    /\ ReindexSucceeded(1) /\ ReindexSucceeded(2)

\* The chapter's stored points are the chunk set of neither call.
EqualsNeitherChunkSet ==
    /\ StoredIds(calls[1].chapter_id) # ChunkIds(calls[1].chunks)
    /\ StoredIds(calls[1].chapter_id) # ChunkIds(calls[2].chunks)

\* C21: two concurrent re-indexings of the same chapter can race.  What
\* every outcome satisfies: the chapter's stored points lie within the two
\* chunk sets together; they are the later call's chunk set when one call's
\* store requests all precede the other's; so a result that is neither
\* call's chunk set arises only from interleaved requests, the delete and
\* the upserts of a call not being atomic.  That such a result arises is
\* the state C21_Witness.
C21_SameChapterRace ==
    SameChapterBothSucceeded =>
        /\ StoredIds(calls[1].chapter_id)
              \subseteq ChunkIds(calls[1].chunks) \cup ChunkIds(calls[2].chunks)
        /\ RanBefore(1, 2) =>
              StoredIds(calls[1].chapter_id) = ChunkIds(calls[2].chunks)
        /\ RanBefore(2, 1) =>
              StoredIds(calls[1].chapter_id) = ChunkIds(calls[1].chunks)
        /\ EqualsNeitherChunkSet => ~RanBefore(1, 2) /\ ~RanBefore(2, 1)

\* The race: the second call re-indexed the chapter with one chunk while
\* the first was between its two upsert sub-batches; afterwards the chapter
\* holds the second call's chunk and the first call's last sub-batch, which
\* is the chunk set of neither.
C21_Witness ==
    /\ SameChapterBothSucceeded
    /\ EqualsNeitherChunkSet
    /\ Len(calls[1].chunks) = 3
    /\ Len(calls[2].chunks) = 1
    /\ Len(store_log) = 5
    /\ store_log[2].call = 1 /\ store_log[2].op = "upsert"
    /\ store_log[3].call = 2 /\ store_log[3].op = "delete"
    /\ store_log[4].call = 2 /\ store_log[4].op = "upsert"
    /\ store_log[5].call = 1 /\ store_log[5].op = "upsert"
    /\ Cardinality(StoredIds(calls[1].chapter_id)) = 2


\* The re-indexing call c deleted its chapter and then indexed nothing: the
\* embedding raised, or every upsert sub-batch it sent failed.
IndexedNothingAfterDelete(c) ==
    /\ calls[c].op = "reindex_chapter"
    /\ calls[c].pc = "returned"
    /\ calls[c].deleted = "ok"
    /\ \/ calls[c].embedded = "raised"
       \/ /\ calls[c].embedded = "ok"
          /\ UpsertsOf(c) # <<>>
          /\ \A k \in Indexes(UpsertsOf(c)) : ~UpsertsOf(c)[k].ok

\* C26: reindex_chapter deletes the chapter's points before it embeds the
\* new chunks: when the embedding, or every upsert sub-batch, then fails,
\* the call returns a result with indexed_chunks = 0 and the collection
\* holds no point of the chapter, its other points being as before; when
\* the delete itself raises, nothing is embedded or upserted, the
\* collection is as before and the error leaves reindex_chapter.
C26_ReindexNotAtomic ==
    \A c \in DOMAIN calls :
        /\ IndexedNothingAfterDelete(c) =>
              /\ calls[c].result.indexed_chunks = 0
              /\ StoredIds(calls[c].chapter_id) = {}
              /\ store = DeleteByFilter(initial_store, calls[c].chapter_id)
        /\ calls[c].deleted \in {"raised", "not connected"} =>
              /\ calls[c].pc = "raised"
              /\ calls[c].embedded = "no"
              /\ UpsertsOf(c) = <<>>
              /\ store = initial_store

\* C26's case: a re-indexing of ch-a on a collection holding three old
\* points of ch-a deleted them, sent two upsert sub-batches that both
\* failed, and returned; the chapter is empty, ch-b is as before.
C26_Witness ==
    /\ IndexedNothingAfterDelete(1)
    /\ calls[1].chapter_id = "ch-a"
    /\ calls[1].embedded = "ok"
    /\ Len(UpsertsOf(1)) = 2
    /\ StoredIds("ch-a") = {}
    /\ {p.id : p \in {q \in initial_store : q.chapter_id = "ch-a"}}
          = {"a0", "a1", "a2"}
    /\ StoredIds("ch-b") = {"b0", "b1"}
    /\ calls[1].result.indexed_chunks = 0
    /\ calls[1].result.failed_chunks = 3

\* C27: every IndexingResult that index_chunks returns has
\* indexed_chunks + failed_chunks = total_chunks = len(chunks), whatever
\* the embedding call did (a list shorter than the chunks included) and
\* whichever upserts failed.
C27_ResultCountsAddUp ==
    \A c \in DOMAIN calls :
        calls[c].pc = "returned" =>
            /\ calls[c].result.total_chunks = Len(calls[c].chunks)
            /\ calls[c].result.indexed_chunks + calls[c].result.failed_chunks
                  = calls[c].result.total_chunks

-----------------------------------------------------------------------------
(* Retriever. *)

\* Most points the collection ranks for a query.
MaxHits == 24

\* The retrieval defaults and the hard maximum of top_k.
DEFAULT_TOP_K == 5
DEFAULT_SCORE_THRESHOLD == 50
MAX_TOP_K == 20

\* The k-th point of the collection by similarity to the query: every third
\* is of chapter nav, the others of ros; the scores fall from 96 by 4.
Hit(k) ==
    [id |-> "p" \o ToString(k),
     chapter_id |-> IF k % 3 = 0 THEN "nav" ELSE "ros",
     score |-> IF 100 - 4 * k > 0 THEN 100 - 4 * k ELSE 0]

\* The rankings a query may meet: no point, a few, many.
HitLists == {[k \in 1..n |-> Hit(k)] : n \in {0, 3, 8, MaxHits}}

\* The (default_top_k, default_score_threshold) a retriever may be built
\* with.
RetrieverDefaults ==
    { <<DEFAULT_TOP_K, DEFAULT_SCORE_THRESHOLD>>, <<10, 75>>, <<30, 20>> }

\* An optional argument that was given.
Given(value) == [none |-> FALSE, value |-> value]

\* The top_k and score_threshold arguments a caller may pass.
TopKs == {None, Given(0), Given(1), Given(3), Given(7), Given(25)}
ScoreThresholds == {None, Given(0), Given(30), Given(80)}

\* The chapter ids a caller may filter by.
RetrievalChapters == {"ros", "nav", "perception"}

\* Python's `argument or default`: None and 0 both give the default.
OrDefault(argument, default) ==
    IF argument.none \/ argument.value = 0 THEN default ELSE argument.value

\* The vector store's search: the best `limit` points scoring at least
\* score_threshold, best first.
Search(limit, score_threshold) ==
    LET matching == SelectSeq(hits, LAMBDA h : h.score >= score_threshold)
    IN  SubSeq(matching, 1, Min(limit, Len(matching)))

\* The search request VectorRetriever.retrieve issues.
SearchRequest(top_k, score_threshold) ==
    [limit |-> Min(OrDefault(top_k, default_top_k), MAX_TOP_K),
     score_threshold |-> OrDefault(score_threshold, default_score_threshold)]

\* VectorRetriever.retrieve, the query processed and the search answered.
retrieve(top_k, score_threshold) ==
    LET request == SearchRequest(top_k, score_threshold)
        chunks == Search(request.limit, request.score_threshold)
    IN  [raised |-> FALSE, chunks |-> chunks, total_found |-> Len(chunks)]

\* VectorRetriever.retrieve_by_chapter, its retrieve having returned.
retrieve_by_chapter(chapter_id, top_k, score_threshold) ==
    LET result == retrieve(Given(OrDefault(top_k, default_top_k) * 3),
                           score_threshold)
        filtered_chunks ==
            SelectSeq(result.chunks, LAMBDA c : c.chapter_id = chapter_id)
        limited == SubSeq(filtered_chunks, 1,
                          Min(OrDefault(top_k, default_top_k),
                              Len(filtered_chunks)))
    IN  [raised |-> FALSE, chunks |-> limited, total_found |-> Len(limited)]

\* A retriever over a collection, before any call.
RetInit ==
    /\ hits \in HitLists
    /\ \E d \in RetrieverDefaults :
          default_top_k = d[1] /\ default_score_threshold = d[2]
    /\ ret_called = "none"
    /\ ret_args = None
    /\ search_log = <<>>
    /\ ret_result = None

\* The searches a call has issued when it ends as `outcome`: none when the
\* query processing raised, else the one request with what the store
\* returned (nothing when the search raised).
SearchesIssued(outcome, request) ==
    CASE outcome = "query processing raised" -> <<>>
      [] outcome = "search raised" ->
            <<[limit |-> request.limit,
               score_threshold |-> request.score_threshold,
               returned |-> <<>>, ok |-> FALSE]>>
      [] outcome = "ok" ->
            <<[limit |-> request.limit,
               score_threshold |-> request.score_threshold,
               returned |-> Search(request.limit, request.score_threshold),
               ok |-> TRUE]>>

\* The ways a retrieval may end; an exception of the query processing or
\* of the search propagates.
RetrievalOutcomes == {"ok", "query processing raised", "search raised"}

\* A call of VectorRetriever.retrieve.
Retrieve ==
    /\ ret_called = "none"
    /\ ret_called' = "retrieve"
    /\ \E top_k \in TopKs, score_threshold \in ScoreThresholds,
          outcome \in RetrievalOutcomes :
         /\ ret_args' = [top_k |-> top_k, score_threshold |-> score_threshold,
                         chapter_id |-> ""]
         /\ search_log' =
               SearchesIssued(outcome, SearchRequest(top_k, score_threshold))
         /\ ret_result' = IF outcome = "ok"
                          THEN retrieve(top_k, score_threshold) ELSE Raised
    /\ UNCHANGED <<hits, default_top_k, default_score_threshold>>
    /\ UNCHANGED notRetVars

\* A call of VectorRetriever.retrieve_by_chapter.
RetrieveByChapter ==
    /\ ret_called = "none"
    /\ ret_called' = "retrieve_by_chapter"
    /\ \E chapter_id \in RetrievalChapters, top_k \in TopKs,
          score_threshold \in ScoreThresholds, outcome \in RetrievalOutcomes :
         /\ ret_args' = [top_k |-> top_k, score_threshold |-> score_threshold,
                         chapter_id |-> chapter_id]
         /\ search_log' =
               SearchesIssued(outcome,
                   SearchRequest(Given(OrDefault(top_k, default_top_k) * 3),
                                 score_threshold))
         /\ ret_result' =
               IF outcome = "ok"
               THEN retrieve_by_chapter(chapter_id, top_k, score_threshold)
               ELSE Raised
    /\ UNCHANGED <<hits, default_top_k, default_score_threshold>>
    /\ UNCHANGED notRetVars

RetNext == Retrieve \/ RetrieveByChapter

\* C17: retrieve passes to the store search the limit min(top_k, MAX_TOP_K)
\* when the caller gives top_k and min(default_top_k, MAX_TOP_K) otherwise,
\* and the caller's score_threshold whenever one is given, 0 included, the
\* default only when none is given.
C17_SearchLimitAndThreshold ==
    (ret_called = "retrieve" /\ search_log # <<>>) =>
        /\ search_log[1].limit =
              IF ret_args.top_k.none THEN Min(default_top_k, MAX_TOP_K)
              ELSE Min(ret_args.top_k.value, MAX_TOP_K)
        /\ search_log[1].score_threshold =
              IF ret_args.score_threshold.none THEN default_score_threshold
              ELSE ret_args.score_threshold.value

\* C18: retrieve_by_chapter searches with limit 3 x the requested top_k
\* (3 x the default when none is given) and returns only chunks of the
\* chapter, at most top_k of them, in the order the store returned them,
\* with total_found = len(chunks).
C18_ChapterRetrievalOverFetches ==
    (ret_called = "retrieve_by_chapter" /\ search_log # <<>>) =>
        LET requested == IF ret_args.top_k.none THEN default_top_k
                         ELSE ret_args.top_k.value
        IN  /\ search_log[1].limit = 3 * requested
            /\ ~ret_result.raised =>
                  /\ \A k \in Indexes(ret_result.chunks) :
                        ret_result.chunks[k].chapter_id = ret_args.chapter_id
                  /\ Len(ret_result.chunks) <= requested
                  /\ IsPrefix(ret_result.chunks,
                              SelectSeq(search_log[1].returned,
                                        LAMBDA c : c.chapter_id
                                                     = ret_args.chapter_id))
                  /\ ret_result.total_found = Len(ret_result.chunks)

-----------------------------------------------------------------------------
(* Content parser: cleaning and sections. *)

\* Most blocks in a document body.
MaxBlocks == 3

\* A line of a document body after the frontmatter: what it is, its text,
\* and the heading text HEADING_PATTERN takes from it ("" when the pattern
\* does not match; it matches any line of 1 to 6 '#', white space and
\* text, wherever the line stands).
Line(kind, text, heading) == [kind |-> kind, text |-> text, heading |-> heading]

\* The blocks a body is made of: a paragraph, a heading, an import and an
\* export line, a self-closing component, a fenced code block holding a
\* shell comment, one without, and a diagram block.
\* The three backquotes of a code fence are written "[fence]".
BlockPool ==
    { << Line("text", "Intro text.", "") >>,
      << Line("text", "## Install", "Install") >>,
      << Line("import", "import Tabs from '@theme/Tabs';", "") >>,
      << Line("export", "export const x = 1;", "") >>,
      << Line("jsx", "<Tabs groupId='x' />", "") >>,
      << Line("fence", "[fence]bash", ""),
         Line("code", "# install ros", "install ros"),
         Line("code", "sudo apt install ros", ""),
         Line("fence", "[fence]", "") >>,
      << Line("fence", "[fence]python", ""),
         Line("code", "print(1)", ""),
         Line("fence", "[fence]", "") >>,
      << Line("mermaid", "[fence]mermaid", ""),
         Line("code", "graph TD; A-->B;", ""),
         Line("fence", "[fence]", "") >> }

\* The lines of a sequence of blocks.
RECURSIVE LinesOf(_)
LinesOf(blocks) ==
    IF blocks = <<>> THEN <<>> ELSE Head(blocks) \o LinesOf(Tail(blocks))

\* The index of the fence that closes the block opened at line i.
RECURSIVE ClosingFence(_, _)
ClosingFence(lines, i) ==
    IF i > Len(lines) THEN i
    ELSE IF lines[i].kind = "fence" THEN i
    ELSE ClosingFence(lines, i + 1)

\* The language process_code_block reads after an opening fence, "code"
\* when there is none.
FenceLang(text) ==
    CASE text = "[fence]bash" -> "bash"
      [] text = "[fence]python" -> "python"
      [] OTHER -> "code"

\* process_code_block: the code lines i..j of a fenced block, the fences
\* taken off and the first line marked with the language.
MarkCode(lines, i, j, lang) ==
    [k \in 1..(j - i + 1) |->
        IF k = 1
        THEN Line("marked",
                  "[Code example in " \o lang \o "]: " \o lines[i].text, "")
        ELSE Line("marked", lines[i + k - 1].text, lines[i + k - 1].heading)]

\* ContentParser._extract_text_content, from line i on: the text of an
\* import line, an export line and a self-closing component is removed, a
\* diagram block becomes "[Diagram]", a fenced code block becomes its
\* marked code.
RECURSIVE CleanLoop(_, _)
CleanLoop(lines, i) ==
    IF i > Len(lines) THEN <<>>
    ELSE LET line == lines[i]
             close == ClosingFence(lines, i + 1)
         IN  CASE line.kind \in {"import", "export", "jsx"} ->
                    <<Line("text", "", "")>> \o CleanLoop(lines, i + 1)
               [] line.kind = "mermaid" ->
                    <<Line("text", "[Diagram]", "")>>
                        \o CleanLoop(lines, close + 1)
               [] line.kind = "fence" ->
                    MarkCode(lines, i + 1, close - 1, FenceLang(line.text))
                        \o CleanLoop(lines, close + 1)
               [] OTHER -> <<line>> \o CleanLoop(lines, i + 1)
_extract_text_content(lines) == CleanLoop(lines, 1)

\* ContentParser._extract_sections, from line i on.
RECURSIVE ExtractSectionsLoop(_, _, _, _, _)
ExtractSectionsLoop(lines, i, current_heading, current_content, sections) ==
    LET saved == IF current_content # <<>>
                 THEN Append(sections, [heading |-> current_heading,
                                        body |-> current_content])
                 ELSE sections
    IN  IF i > Len(lines) THEN saved
        ELSE IF lines[i].heading # ""
        THEN ExtractSectionsLoop(lines, i + 1, lines[i].heading, <<>>, saved)
        ELSE ExtractSectionsLoop(lines, i + 1, current_heading,
                                 Append(current_content, lines[i]), sections)
_extract_sections(lines) ==
    ExtractSectionsLoop(lines, 1, "Introduction", <<>>, <<>>)

\* A document body, not yet parsed.
ParInit ==
    /\ raw_lines \in {LinesOf(blocks) : blocks \in SeqUpTo(BlockPool, MaxBlocks)}
    /\ parsed = None

\* ContentParser.parse_content, after the frontmatter is taken off: the
\* text content is made from the body, and so are the sections.
ParseContent ==
    /\ parsed = None
    /\ parsed' = [none |-> FALSE,
                  text_content |-> _extract_text_content(raw_lines),
                  sections |-> _extract_sections(raw_lines)]
    /\ UNCHANGED raw_lines
    /\ UNCHANGED notParVars

ParNext == ParseContent

\* The kinds of line that cleaning removes or rewrites.
CleanedAwayKinds == {"import", "export", "jsx", "fence", "mermaid", "code"}

\* The heading texts cleaning leaves in the body.
HeadingsOfCleanedBody ==
    {parsed.text_content[k].heading : k \in Indexes(parsed.text_content)}
        \ {""}

\* C22: the sections parse_content returns are split from the cleaned body:
\* no section body holds a line that cleaning removes or rewrites (import
\* and export lines, component tags, raw fenced code, diagram blocks), and
\* a line beginning with '#' inside a fenced code block starts no section.
C22_SectionsFromCleanedBody ==
    ~parsed.none =>
        /\ \A s \in Indexes(parsed.sections) :
              /\ \A k \in Indexes(parsed.sections[s].body) :
                    parsed.sections[s].body[k].kind \notin CleanedAwayKinds
              /\ parsed.sections[s].heading
                    \in HeadingsOfCleanedBody \cup {"Introduction"}
        /\ parsed.sections = _extract_sections(parsed.text_content)

-----------------------------------------------------------------------------
(* Query processor. *)

\* Most words in a query, and most process_query calls.
MaxQueryWords == 3
MaxQueryRuns == 2

\* The words a raw query may be made of, as typed.
RawWords == {"Robot", "vision,", "AI", "the", "robotics"}

\* What preprocess_query makes of a word: lower case, punctuation other
\* than '?' and '-' replaced by white space, white space normalised.
PreprocessWord(word) ==
    CASE word = "Robot" -> "robot"
      [] word = "vision," -> "vision"
      [] word = "AI" -> "ai"
      [] OTHER -> word

\* s.join(strings).
RECURSIVE Join(_, _)
Join(strings, s) ==
    IF strings = <<>> THEN ""
    ELSE IF Len(strings) = 1 THEN strings[1]
    ELSE strings[1] \o s \o Join(Tail(strings), s)

\* QueryProcessor.preprocess_query, of a query given as its words; the
\* result is the words it leaves, which the processed string joins by " ".
preprocess_query(query) == [k \in Indexes(query) |-> PreprocessWord(query[k])]

\* QueryProcessor.STOP_WORDS.
STOP_WORDS ==
    {"a", "an", "the", "is", "are", "was", "were", "be", "been", "being",
     "have", "has", "had", "do", "does", "did", "will", "would", "could",
     "should", "may", "might", "must", "shall", "can", "need", "dare",
     "ought", "used", "to", "of", "in", "for", "on", "with", "at", "by",
     "from", "as", "into", "through", "during", "before", "after", "above",
     "below", "between", "under", "again", "further", "then", "once",
     "here", "there", "when", "where", "why", "how", "all", "each", "few",
     "more", "most", "other", "some", "such", "no", "nor", "not", "only",
     "own", "same", "so", "than", "too", "very", "just", "and", "but",
     "if", "or", "because", "until", "while", "what", "which", "who",
     "whom", "this", "that", "these", "those", "am", "i", "me", "my",
     "myself", "we", "our", "ours", "ourselves", "you", "your", "yours",
     "yourself", "yourselves", "he", "him", "his", "himself", "she", "her",
     "hers", "herself", "it", "its", "itself", "they", "them", "their",
     "theirs", "themselves"}

\* The keys of QueryProcessor.DOMAIN_SYNONYMS.
DomainWords ==
    {"robot", "ai", "vision", "motion", "sensor", "control", "learning",
     "planning", "manipulation", "navigation", "hri", "safety", "ethics"}

\* QueryProcessor.DOMAIN_SYNONYMS.
DOMAIN_SYNONYMS(word) ==
    CASE word = "robot" -> <<"robotics", "robotic", "humanoid">>
      [] word = "ai" -> <<"artificial intelligence", "machine learning", "ml">>
      [] word = "vision" -> <<"computer vision", "visual perception", "image processing">>
      [] word = "motion" -> <<"movement", "locomotion", "kinematics">>
      [] word = "sensor" -> <<"sensors", "perception", "sensing">>
      [] word = "control" -> <<"controller", "controlling", "actuation">>
      [] word = "learning" -> <<"training", "machine learning", "neural network">>
      [] word = "planning" -> <<"path planning", "motion planning", "trajectory">>
      [] word = "manipulation" -> <<"grasping", "handling", "pick and place">>
      [] word = "navigation" -> <<"localization", "mapping", "slam">>
      [] word = "hri" -> <<"human robot interaction", "human-robot interaction">>
      [] word = "safety" -> <<"safe", "collision avoidance", "risk">>
      [] word = "ethics" -> <<"ethical", "responsible ai", "fairness">>

\* "synonym.lower() in query_lower" for the words of RawWords: of the
\* synonyms of their keys, "robotics" and "robotic" are inside "robotics".
Contains(words, synonym) ==
    \E k \in Indexes(words) :
        \/ words[k] = synonym
        \/ words[k] = "robotics" /\ synonym = "robotic"

\* The orders in which the iteration over a set of words may meet the keys
\* of DOMAIN_SYNONYMS that the queries can hold: str hashes are salted per
\* interpreter, so the order is fixed within one interpreter and differs
\* between interpreters.
HashOrders ==
    {order \in [1..3 -> {"robot", "vision", "ai"}] :
        \A i, j \in 1..3 : i # j => order[i] # order[j]}

\* The synonyms of one word that are not in the query, in table order.
SynonymsToAdd(word, words) ==
    SelectSeq(DOMAIN_SYNONYMS(word), LAMBDA synonym : ~Contains(words, synonym))

\* The loop `for word in meaningful_words` of expand_query, in the order
\* the set yields its words.
RECURSIVE ExpandLoop(_, _, _, _)
ExpandLoop(order, k, words, meaningful_words) ==
    IF k > Len(order) THEN <<>>
    ELSE (IF order[k] \in meaningful_words /\ order[k] \in DomainWords
          THEN SynonymsToAdd(order[k], words) ELSE <<>>)
         \o ExpandLoop(order, k + 1, words, meaningful_words)

\* QueryProcessor.expand_query, of the words of the preprocessed query.
expand_query(words, enabled, order) ==
    IF ~enabled THEN <<>>
    ELSE ExpandLoop(order, 1, words,
                    {words[k] : k \in Indexes(words)} \ STOP_WORDS)

\* QueryProcessor.build_embedding_text.
build_embedding_text(processed_query, expanded_terms) ==
    IF expanded_terms = <<>> THEN Join(<<processed_query>>, " ")
    ELSE Join(<<processed_query,
                Join(SubSeq(expanded_terms, 1, Min(3, Len(expanded_terms))),
                     " ")>>, " ")

\* A query processor in a running interpreter, before any query.
QpInit ==
    /\ raw_query \in SeqUpTo(RawWords, MaxQueryWords)
    /\ enable_expansion \in BOOLEAN
    /\ hash_order \in HashOrders
    /\ processed_queries = <<>>

\* The service is started again: a new interpreter, a new hash salt.
RestartInterpreter ==
    /\ \E order \in HashOrders : order # hash_order /\ hash_order' = order
    /\ UNCHANGED <<raw_query, enable_expansion, processed_queries>>
    /\ UNCHANGED notQpVars

\* QueryProcessor.process_query on the query; the embedding call returns
\* the text's vector or raises, and the error propagates.
ProcessQuery ==
    /\ Len(processed_queries) < MaxQueryRuns
    /\ \E embed_ok \in BOOLEAN :
         LET processed == preprocess_query(raw_query)
             expanded_terms == expand_query(processed, enable_expansion,
                                            hash_order)
             embedding_text == build_embedding_text(Join(processed, " "),
                                                    expanded_terms)
         IN  processed_queries' =
                 Append(processed_queries,
                        IF embed_ok
                        THEN [raised |-> FALSE,
                              original_query |-> raw_query,
                              processed_query |-> Join(processed, " "),
                              expanded_terms |-> expanded_terms,
                              embedded_text |-> embedding_text,
                              embedding |-> Embedding(embedding_text)]
                        ELSE [raised |-> TRUE])
    /\ UNCHANGED <<raw_query, enable_expansion, hash_order>>
    /\ UNCHANGED notQpVars

QpNext == RestartInterpreter \/ ProcessQuery

\* C30: query processing is deterministic: every process_query of the same
\* query string gets the same expansion terms in the same order, embeds
\* the same text and returns the same embedding.
C30_QueryProcessingDeterministic ==
    \A a, b \in Indexes(processed_queries) :
        (~processed_queries[a].raised /\ ~processed_queries[b].raised) =>
            /\ processed_queries[a].expanded_terms
                  = processed_queries[b].expanded_terms
            /\ processed_queries[a].embedded_text
                  = processed_queries[b].embedded_text
            /\ processed_queries[a].embedding = processed_queries[b].embedding

-----------------------------------------------------------------------------
(* Specifications. *)

\* The idle values of each component's variables.
GenIdle ==
    /\ retrieved = <<>> /\ selected_text = None
    /\ max_tokens = DEFAULT_MAX_TOKENS /\ max_chunks = DEFAULT_MAX_CHUNKS
    /\ called = "none" /\ built = None /\ sources = <<>> /\ response = None
    /\ priority_chapter_id = None
ChunkIdle ==
    /\ docs = <<>> /\ chunk_size = 0 /\ chunk_overlap = 0
    /\ min_chunk_size = 0 /\ runs = <<>> /\ all_chunks = None

EmbIdle ==
    /\ texts = <<>> /\ emb_pc = "idle" /\ batches = <<>> /\ batch_idx = 0
    /\ attempt = 0 /\ retry_delay = INITIAL_RETRY_DELAY
    /\ provider_calls = <<>> /\ sleeps = <<>> /\ all_results = <<>>
    /\ emb_error = "none"

IdxIdle ==
    store = {} /\ initial_store = {} /\ store_log = <<>> /\ calls = <<>>

RetIdle ==
    /\ hits = <<>> /\ default_top_k = DEFAULT_TOP_K
    /\ default_score_threshold = DEFAULT_SCORE_THRESHOLD
    /\ ret_called = "none" /\ ret_args = None
    /\ search_log = <<>> /\ ret_result = None

ParIdle ==
    raw_lines = <<>> /\ parsed = None

QpIdle ==
    /\ raw_query = <<>> /\ enable_expansion = TRUE
    /\ hash_order = <<>> /\ processed_queries = <<>>

\* The response generator and the context builder.
InitGen == GenInit /\ ChunkIdle /\ EmbIdle /\ IdxIdle /\ RetIdle /\ ParIdle /\ QpIdle
SpecGen == InitGen /\ [][GenNext]_vars

\* The content parser and the chunker.
InitChunk == ChunkInit /\ GenIdle /\ EmbIdle /\ IdxIdle /\ RetIdle /\ ParIdle /\ QpIdle
SpecChunk == InitChunk /\ [][ChunkNext]_vars

\* The embedding service.
InitEmb == EmbInit /\ GenIdle /\ ChunkIdle /\ IdxIdle /\ RetIdle /\ ParIdle /\ QpIdle
SpecEmb == InitEmb /\ [][EmbNext]_vars

\* The indexer, one call at a time.
InitIdx == IdxInit /\ GenIdle /\ ChunkIdle /\ EmbIdle /\ RetIdle /\ ParIdle /\ QpIdle
SpecIdx == InitIdx /\ [][IdxNext]_vars

\* Two indexer calls running concurrently.
InitIdxConcurrent == IdxInitConcurrent /\ GenIdle /\ ChunkIdle /\ EmbIdle /\ RetIdle /\ ParIdle /\ QpIdle
SpecIdxConcurrent == InitIdxConcurrent /\ [][IdxNext]_vars

\* Two concurrent re-indexings of one chapter.
InitIdxSameChapter == IdxInitSameChapter /\ GenIdle /\ ChunkIdle /\ EmbIdle /\ RetIdle /\ ParIdle /\ QpIdle
SpecIdxSameChapter == InitIdxSameChapter /\ [][IdxNext]_vars

\* The retriever.
InitRet == RetInit /\ GenIdle /\ ChunkIdle /\ EmbIdle /\ IdxIdle /\ ParIdle /\ QpIdle
SpecRet == InitRet /\ [][RetNext]_vars

\* The content parser's cleaning and sections.
InitPar == ParInit /\ GenIdle /\ ChunkIdle /\ EmbIdle /\ IdxIdle /\ RetIdle /\ QpIdle
SpecPar == InitPar /\ [][ParNext]_vars

\* The query processor.
InitQp == QpInit /\ GenIdle /\ ChunkIdle /\ EmbIdle /\ IdxIdle /\ RetIdle /\ ParIdle
SpecQp == InitQp /\ [][QpNext]_vars

=============================================================================
